---- MODULE Spec2Model ----
(***************************************************************************)
(* A model of ascii_drone: the HandDetector gesture state machine          *)
(* (src/handDetection.js, the hold-to-activate class at lines 1-367) and   *)
(* the AudioEngine initialisation state machine (src/audioEngine.js).      *)
(*                                                                         *)
(* Coordinates are MediaPipe's normalised [0,1] values in thousandths,     *)
(* angles are whole degrees, times are milliseconds of performance.now().  *)
(* A nullable JavaScript value is <<>> (null) or <<v>> (the value v).      *)
(***************************************************************************)
EXTENDS Integers, Sequences, FiniteSets, TLC

Null == <<>>
Some(v) == <<v>>
Val(o) == o[1]

Max(a, b) == IF a >= b THEN a ELSE b
Min(a, b) == IF a <= b THEN a ELSE b

(***************************************************************************)
(* Program constants                                                       *)
(***************************************************************************)
\* static PINCH_THRESHOLD = 0.05, in thousandths
PINCH_THRESHOLD == 50
\* static HOLD_DURATION_MS = 450
HOLD_DURATION_MS == 450
\* this.maxNoDetection = 300
maxNoDetection == 300

(***************************************************************************)
(* Bounds of the model                                                     *)
(***************************************************************************)
\* no frame is delivered after this time (ms)
MaxNow == 1125
\* the time between two delivered frames is one of these (ms): two frames
\* of 225 ms reach the hold duration exactly, one of 449 ms stays below it
FrameDeltas == {225, 449}
\* _doInit() is started at most this many times
MaxAttempts == 2
\* init() is called at most this many times
MaxCalls == 3
MaxMainNow == 2250
\* the frames without a hand that preceded the first frame of the
\* starvation model
StarvedFrames == 297

(***************************************************************************)
(* Landmark sets: the landmarks the classifiers read, by MediaPipe index   *)
(***************************************************************************)
P(px, py) == [x |-> px, y |-> py]

Shift(landmarks, sx, sy) ==
    [i \in DOMAIN landmarks |-> P(landmarks[i].x + sx, landmarks[i].y + sy)]

\* an open upright hand: no finger folded, thumb and index apart
OpenHand ==
    0 :> P(500, 800) @@ 2 :> P(400, 700) @@ 4 :> P(300, 600) @@
    5 :> P(450, 600) @@ 8 :> P(450, 400) @@ 9 :> P(500, 600) @@
    12 :> P(500, 400) @@ 13 :> P(550, 600) @@ 16 :> P(550, 420) @@
    17 :> P(600, 620) @@ 20 :> P(600, 480)

\* thumb tip and index tip 20 apart, no finger folded
PinchA == [OpenHand EXCEPT ![4] = P(440, 420), ![8] = P(460, 420)]

\* thumb tip and index tip 40 apart, three fingers folded (not yet a fist)
PinchB ==
    Shift([OpenHand EXCEPT ![4] = P(440, 440), ![8] = P(440, 400),
                           ![12] = P(500, 650), ![16] = P(550, 650),
                           ![20] = P(600, 660)], 200, -100)

\* four fingers folded, middle fingertip up and to the right of the wrist
FistRight ==
    [OpenHand EXCEPT ![8] = P(600, 640), ![9] = P(640, 600),
                     ![12] = P(650, 650), ![16] = P(560, 650),
                     ![20] = P(610, 660)]

\* four fingers folded, middle fingertip up and to the left of the wrist,
\* thumb tip 20 from the index tip
FistLeftClose ==
    [OpenHand EXCEPT ![4] = P(380, 650), ![8] = P(400, 650),
                     ![9] = P(360, 600), ![12] = P(350, 650),
                     ![16] = P(560, 650), ![20] = P(610, 660)]

\* four fingers folded, the hand turned over: middle fingertip below and to
\* the right of the wrist, 135 degrees from upright
FistDown == [FistRight EXCEPT ![12] = P(650, 950)]

\* the landmark sets a detected hand can have, by name
Poses == {"open", "pinchA", "pinchB", "fistRight", "fistLeftClose", "fistDown"}

LandmarksOf(pose) ==
    CASE pose = "open" -> OpenHand
      [] pose = "pinchA" -> PinchA
      [] pose = "pinchB" -> PinchB
      [] pose = "fistRight" -> FistRight
      [] pose = "fistLeftClose" -> FistLeftClose
      [] pose = "fistDown" -> FistDown

Labels == {"Left", "Right"}
\* one entry of results.multiHandedness with its multiHandLandmarks entry
Hands == [label : Labels, pose : Poses]
\* the detector reports at most two hands (maxNumHands: 2), in either order;
\* the frames of the model show two hands only with different labels and
\* both making a gesture
GestureHands == {h \in Hands : h.pose # "open"}
Frames ==
    {<<>>} \cup {<<h>> : h \in Hands}
           \cup {f \in GestureHands \X GestureHands : f[1].label # f[2].label}

(***************************************************************************)
(* Gesture classifier                                                      *)
(***************************************************************************)
\* Math.atan2(dy, dx) * (180 / Math.PI) on the eight compass directions
Atan2Deg(dy, dx) ==
    CASE dx = 0 /\ dy = 0 -> 0
      [] dx > 0 /\ dy = 0 -> 0
      [] dx > 0 /\ dy = dx -> 45
      [] dx = 0 /\ dy > 0 -> 90
      [] dx < 0 /\ dy = -dx -> 135
      [] dx < 0 /\ dy = 0 -> 180
      [] dx < 0 /\ dy = dx -> -135
      [] dx = 0 /\ dy < 0 -> -90
      [] dx > 0 /\ dy = -dx -> -45

\* calculateHandRotation without the final Math.max / Math.min
calculateHandRotation_Unclamped(landmarks) ==
    LET wrist == landmarks[0]
        middleFingerTip == landmarks[12]
        dx == middleFingerTip.x - wrist.x
        dy == middleFingerTip.y - wrist.y
        angle0 == Atan2Deg(dy, dx) + 90
        angle1 == IF angle0 < -180 THEN angle0 + 360 ELSE angle0
    IN  IF angle1 > 180 THEN angle1 - 360 ELSE angle1

calculateHandRotation(landmarks) ==
    LET wrist == landmarks[0]
        middleFingerTip == landmarks[12]
        dx == middleFingerTip.x - wrist.x
        dy == middleFingerTip.y - wrist.y
        angle0 == Atan2Deg(dy, dx) + 90
        angle1 == IF angle0 < -180 THEN angle0 + 360 ELSE angle0
        angle2 == IF angle1 > 180 THEN angle1 - 360 ELSE angle1
    IN  Max(-90, Min(90, angle2))

fingerTips == <<4, 8, 12, 16, 20>>
fingerMCPs == <<2, 5, 9, 13, 17>>

isFist(landmarks) ==
    LET foldedFingers ==
            Cardinality({i \in 1..Len(fingerTips) :
                landmarks[fingerTips[i]].y > landmarks[fingerMCPs[i]].y})
    IN  foldedFingers >= 4

\* isPinch by the distance alone
isPinch_DistanceOnly(landmarks) ==
    LET thumbTip == landmarks[4]
        indexTip == landmarks[8]
        dx == thumbTip.x - indexTip.x
        dy == thumbTip.y - indexTip.y
    IN  dx * dx + dy * dy < PINCH_THRESHOLD * PINCH_THRESHOLD

\* distance < threshold, compared as squares
isPinch(landmarks) ==
    LET thumbTip == landmarks[4]
        indexTip == landmarks[8]
        dx == thumbTip.x - indexTip.x
        dy == thumbTip.y - indexTip.y
    IN  /\ dx * dx + dy * dy < PINCH_THRESHOLD * PINCH_THRESHOLD
        /\ ~isFist(landmarks)

\* the poses keep the sums even, so the midpoint is exact
getPinchPosition(landmarks) ==
    LET thumbTip == landmarks[4]
        indexTip == landmarks[8]
    IN  P((thumbTip.x + indexTip.x) \div 2, (thumbTip.y + indexTip.y) \div 2)

toLowerCase(label) == IF label = "Left" THEN "left" ELSE "right"

\* the classifier's results for each landmark set, computed once
Classified ==
    [pose \in Poses |->
        [rotation |-> calculateHandRotation(LandmarksOf(pose)),
         isFist |-> isFist(LandmarksOf(pose)),
         isPinch |-> isPinch(LandmarksOf(pose)),
         position |-> getPinchPosition(LandmarksOf(pose))]]

(***************************************************************************)
(* State                                                                   *)
(***************************************************************************)
VARIABLES
    \* the clock: performance.now() at the last delivered frame
    now,
    \* HandDetector fields
    isInitialized, detectorInit,
    hand1Rotation, hand2Rotation, lastLeftRotation, lastRightRotation,
    noDetectionCount,
    pinchActive, pinchPosition, pinchHand,
    fistHoldStart, pinchHoldStart, fistActive, pinchActiveConfirmed,
    \* restartCamera() calls that have not completed
    restartsInFlight,
    \* the Gesture Event handed to onResultsCallback by the last frame
    event,
    \* history of the frame stream, kept for the properties only (run also
    \* holds the hands that pinched in every frame of the pinch's run):
    \* what the last processed frame showed, the rotations published
    \* before it, the onset of each gesture's current contiguous run, and
    \* the onset of a fist's run that the last frame ended
    seen, prevRotation, run, ended,
    \* one hand's landmark set and what the three classifiers returned for
    \* it, for the classifiers taken alone
    handLandmarks, classified

gestureVars ==
    <<now, isInitialized, detectorInit, hand1Rotation, hand2Rotation,
      lastLeftRotation, lastRightRotation, noDetectionCount, pinchActive,
      pinchPosition, pinchHand, fistHoldStart, pinchHoldStart, fistActive,
      pinchActiveConfirmed, restartsInFlight, event, seen, prevRotation, run,
      ended, handLandmarks, classified>>

VARIABLES
    \* AudioEngine fields
    state, initPromise,
    roundedVoices, saturatedVoices, roundedLFOs, saturatedLFOs, chain,
    pendingIntensity, pendingWidth, lastValidIntensity, lastValidWidth,
    baseFreqs,
    \* what the last setIntensity / setWidth mapping was applied with
    appliedIntensity, appliedWidth,
    \* where the running _doInit() stands, the number of _doInit() calls so
    \* far, and the settlement of the promise each of them returned
    initPc, attempts, promises,
    \* main.js: the click / keydown listeners of startAudio are attached
    listening,
    \* history, kept for the properties only: for every init() call the
    \* attempt whose promise it returned, the engine state it found and
    \* whether startAudio made it
    calls,
    \* the key state of the engine
    currentKey, isMinor,
    \* history, kept for the properties only: per parameter the last valid
    \* amount a setter was called with (0 when only invalid ones were), a
    \* queued amount that a later call replaced and the amount of the last
    \* call; and the amounts the replay at the end of _doInit() applied
    expected, replayed,
    \* history, kept for the properties only: the name the last setKey call
    \* was made with, and a bit that every setKey call flips
    keyCall

audioVars ==
    <<state, initPromise, roundedVoices, saturatedVoices, roundedLFOs,
      saturatedLFOs, chain, pendingIntensity, pendingWidth, lastValidIntensity,
      lastValidWidth, baseFreqs, appliedIntensity, appliedWidth, initPc,
      attempts, promises, listening, calls, currentKey, isMinor, expected,
      replayed, keyCall>>

VARIABLES
    \* main.js: the key state of the application
    mainCurrentKey, mainHoveredKey, wasPinching,
    \* AsciiRenderer fields
    saturationMultiplier, driftAmount,
    \* KeyOverlay fields
    visible, opacity, overlayCurrentKey, overlayHoveredKey, rotationOffset,
    targetRotationOffset, overlayPinchPosition, fadeStartTime, fadeDirection,
    rotationStartTime, rotationStartOffset, hideTimeout,
    \* the timers setTimeout has scheduled and that neither fired nor were
    \* cleared
    timers,
    \* history, kept for the properties only: the event of the last
    \* onHandResults call with the calls it made and a bit that alternates
    \* from call to call; the key the last active frame hit-tested; and
    \* whether a pinch was in progress when the hide timer last fired
    lastFrame, lastHover, lastFiring,
    \* the position of the last getKeyAtPosition call made on its own, with
    \* the key it returned
    hitTest

mainVars ==
    <<mainCurrentKey, mainHoveredKey, wasPinching, saturationMultiplier,
      driftAmount, visible, opacity, overlayCurrentKey, overlayHoveredKey,
      rotationOffset, targetRotationOffset, overlayPinchPosition, fadeStartTime,
      fadeDirection, rotationStartTime, rotationStartOffset, hideTimeout, timers,
      lastFrame, lastHover, lastFiring, hitTest>>

vars == <<gestureVars, audioVars, mainVars>>

(***************************************************************************)
(* HandDetector                                                            *)
(***************************************************************************)
\* constructor, up to the first await of init()
HandDetectorInit ==
    /\ now = 0
    /\ isInitialized = FALSE
    /\ detectorInit = "starting"
    /\ hand1Rotation = 0
    /\ hand2Rotation = 0
    /\ lastLeftRotation = 0
    /\ lastRightRotation = 0
    /\ noDetectionCount = 0
    /\ pinchActive = FALSE
    /\ pinchPosition = Null
    /\ pinchHand = Null
    /\ fistHoldStart = [left |-> Null, right |-> Null]
    /\ pinchHoldStart = Null
    /\ fistActive = [left |-> FALSE, right |-> FALSE]
    /\ pinchActiveConfirmed = FALSE
    /\ restartsInFlight = 0
    /\ event = Null
    /\ seen = Null
    /\ prevRotation = [left |-> 0, right |-> 0]
    /\ run = [left |-> Null, right |-> Null, pinch |-> Null, holders |-> {}]
    /\ ended = [left |-> Null, right |-> Null]
    /\ handLandmarks = Null
    /\ classified = Null

\* the body of the forEach over the detected hands, for one hand
ForEachHand(acc, hand) ==
    LET c == Classified[hand.pose]
        rotation == c.rotation
        fist == c.isFist
        pinch == c.isPinch
        label == hand.label
        a1 == IF pinch
              THEN [acc EXCEPT !.pinchDetected = TRUE,
                               !.pinchData = Some([position |-> c.position,
                                                   hand |-> toLowerCase(label)])]
              ELSE acc
    IN  IF fist /\ ~pinch
        THEN IF label = "Left"
             THEN [a1 EXCEPT !.leftFistDetected = TRUE, !.hand1Rotation = rotation]
             ELSE [a1 EXCEPT !.rightFistDetected = TRUE, !.hand2Rotation = rotation]
        ELSE a1

RECURSIVE ScanHands(_, _, _)
ScanHands(frame, index, acc) ==
    IF index > Len(frame) THEN acc
    ELSE ScanHands(frame, index + 1, ForEachHand(acc, frame[index]))

\* the classification pass of getHandRotationAngle
DetectGestures(frame) ==
    ScanHands(frame, 1,
        [leftFistDetected |-> FALSE, rightFistDetected |-> FALSE,
         pinchDetected |-> FALSE, pinchData |-> Null,
         hand1Rotation |-> hand1Rotation, hand2Rotation |-> hand2Rotation])

\* ProcessLeftFist with the hold compared by > instead of >=
ProcessLeftFist_StrictHold(d, t) ==
    IF d.leftFistDetected
    THEN LET start == IF fistHoldStart.left = Null THEN Some(t) ELSE fistHoldStart.left
             active == IF fistHoldStart.left = Null THEN fistActive.left
                       ELSE IF ~fistActive.left
                               /\ t - Val(fistHoldStart.left) > HOLD_DURATION_MS
                            THEN TRUE ELSE fistActive.left
         IN  [start |-> start, active |-> active,
              last |-> IF active THEN d.hand1Rotation ELSE lastLeftRotation]
    ELSE [start |-> Null, active |-> FALSE, last |-> lastLeftRotation]

\* the left fist hold-to-activate block: the new start, active, lastRotation
ProcessLeftFist(d, t) ==
    IF d.leftFistDetected
    THEN LET start == IF fistHoldStart.left = Null THEN Some(t) ELSE fistHoldStart.left
             active == IF fistHoldStart.left = Null THEN fistActive.left
                       ELSE IF ~fistActive.left
                               /\ t - Val(fistHoldStart.left) >= HOLD_DURATION_MS
                            THEN TRUE ELSE fistActive.left
         IN  [start |-> start, active |-> active,
              last |-> IF active THEN d.hand1Rotation ELSE lastLeftRotation]
    ELSE [start |-> Null, active |-> FALSE, last |-> lastLeftRotation]

\* ProcessRightFist whose reset forgets to clear the hold timer
ProcessRightFist_KeepTimer(d, t) ==
    IF d.rightFistDetected
    THEN LET start == IF fistHoldStart.right = Null THEN Some(t) ELSE fistHoldStart.right
             active == IF fistHoldStart.right = Null THEN fistActive.right
                       ELSE IF ~fistActive.right
                               /\ t - Val(fistHoldStart.right) >= HOLD_DURATION_MS
                            THEN TRUE ELSE fistActive.right
         IN  [start |-> start, active |-> active,
              last |-> IF active THEN d.hand2Rotation ELSE lastRightRotation]
    ELSE [start |-> fistHoldStart.right, active |-> FALSE, last |-> lastRightRotation]

\* the right fist hold-to-activate block
ProcessRightFist(d, t) ==
    IF d.rightFistDetected
    THEN LET start == IF fistHoldStart.right = Null THEN Some(t) ELSE fistHoldStart.right
             active == IF fistHoldStart.right = Null THEN fistActive.right
                       ELSE IF ~fistActive.right
                               /\ t - Val(fistHoldStart.right) >= HOLD_DURATION_MS
                            THEN TRUE ELSE fistActive.right
         IN  [start |-> start, active |-> active,
              last |-> IF active THEN d.hand2Rotation ELSE lastRightRotation]
    ELSE [start |-> Null, active |-> FALSE, last |-> lastRightRotation]

\* ProcessPinch confirming on the second frame whatever time has passed
ProcessPinch_NoHold(d, t) ==
    IF d.pinchDetected
    THEN LET start == IF pinchHoldStart = Null THEN Some(t) ELSE pinchHoldStart
             confirmed == pinchHoldStart # Null
         IN  IF confirmed
             THEN [start |-> start, confirmed |-> TRUE, active |-> TRUE,
                   position |-> Some(Val(d.pinchData).position),
                   hand |-> Some(Val(d.pinchData).hand)]
             ELSE [start |-> start, confirmed |-> FALSE, active |-> FALSE,
                   position |-> Null, hand |-> Null]
    ELSE [start |-> Null, confirmed |-> FALSE, active |-> FALSE,
          position |-> Null, hand |-> Null]

\* ProcessPinch reporting an unconfirmed pinch's position and hand
ProcessPinch_RawPosition(d, t) ==
    IF d.pinchDetected
    THEN LET start == IF pinchHoldStart = Null THEN Some(t) ELSE pinchHoldStart
             confirmed == IF pinchHoldStart = Null THEN FALSE
                          ELSE IF ~pinchActiveConfirmed
                                  /\ t - Val(pinchHoldStart) >= HOLD_DURATION_MS
                               THEN TRUE ELSE pinchActiveConfirmed
         IN  [start |-> start, confirmed |-> confirmed, active |-> confirmed,
              position |-> Some(Val(d.pinchData).position),
              hand |-> Some(Val(d.pinchData).hand)]
    ELSE [start |-> Null, confirmed |-> FALSE, active |-> FALSE,
          position |-> Null, hand |-> Null]

\* the pinch hold-to-activate block
ProcessPinch(d, t) ==
    IF d.pinchDetected
    THEN LET start == IF pinchHoldStart = Null THEN Some(t) ELSE pinchHoldStart
             confirmed == IF pinchHoldStart = Null THEN FALSE
                          ELSE IF ~pinchActiveConfirmed
                                  /\ t - Val(pinchHoldStart) >= HOLD_DURATION_MS
                               THEN TRUE ELSE pinchActiveConfirmed
         IN  IF confirmed
             THEN [start |-> start, confirmed |-> TRUE, active |-> TRUE,
                   position |-> Some(Val(d.pinchData).position),
                   hand |-> Some(Val(d.pinchData).hand)]
             ELSE [start |-> start, confirmed |-> FALSE, active |-> FALSE,
                   position |-> Null, hand |-> Null]
    ELSE [start |-> Null, confirmed |-> FALSE, active |-> FALSE,
          position |-> Null, hand |-> Null]

\* getHandRotationAngle returning the rotations stored by the
\* classification pass instead of the published ones
getHandRotationAngle_RawRotation(frame, t) ==
    LET d == DetectGestures(frame)
        l == ProcessLeftFist(d, t)
        r == ProcessRightFist(d, t)
        p == ProcessPinch(d, t)
    IN  [fistHoldStart |-> [left |-> l.start, right |-> r.start],
         fistActive |-> [left |-> l.active, right |-> r.active],
         lastLeftRotation |-> l.last,
         lastRightRotation |-> r.last,
         pinchHoldStart |-> p.start,
         pinchActiveConfirmed |-> p.confirmed,
         pinchActive |-> p.active,
         pinchPosition |-> p.position,
         pinchHand |-> p.hand,
         left |-> d.hand1Rotation,
         right |-> d.hand2Rotation]

\* getHandRotationAngle(results) at time t: every field it leaves behind,
\* and the rotations it returns
getHandRotationAngle(frame, t) ==
    LET d == DetectGestures(frame)
        l == ProcessLeftFist(d, t)
        r == ProcessRightFist(d, t)
        p == ProcessPinch(d, t)
    IN  [fistHoldStart |-> [left |-> l.start, right |-> r.start],
         fistActive |-> [left |-> l.active, right |-> r.active],
         lastLeftRotation |-> l.last,
         lastRightRotation |-> r.last,
         pinchHoldStart |-> p.start,
         pinchActiveConfirmed |-> p.confirmed,
         pinchActive |-> p.active,
         pinchPosition |-> p.position,
         pinchHand |-> p.hand,
         left |-> l.last,
         right |-> r.last]

\* what a frame shows, by the classifier alone: per label the angle of its
\* (last) fist, and the pinching hands in the detector's order
LabelFists(frame, label) ==
    SelectSeq(frame, LAMBDA h : h.label = label /\ Classified[h.pose].isFist
                                                /\ ~Classified[h.pose].isPinch)

FistSeen(frame, label) ==
    LET f == LabelFists(frame, label)
    IN  IF Len(f) = 0 THEN Null
        ELSE Some(Classified[f[Len(f)].pose].rotation)

PinchesSeen(frame) ==
    LET f == SelectSeq(frame, LAMBDA h : Classified[h.pose].isPinch)
    IN  [i \in 1..Len(f) |-> [position |-> Classified[f[i].pose].position,
                              hand |-> toLowerCase(f[i].label)]]

Observe ==
    [frame \in Frames |->
        [hands |-> Len(frame),
         left |-> FistSeen(frame, "Left"),
         right |-> FistSeen(frame, "Right"),
         pinches |-> PinchesSeen(frame)]]

\* the onset of a gesture's contiguous run of processed frames: its time,
\* the angle classified then, and the onset of the run that ended in the
\* frame just before it, if one did
RunAfter(old, present, t, angle, before) ==
    IF ~present THEN Null
    ELSE IF old = Null THEN Some([start |-> t, angle |-> angle, before |-> before])
    ELSE old

\* the hands that have pinched in every processed frame of the pinch's run
HoldersAfter(old, pinchRun, pinches) ==
    LET pinching == {pinches[i].hand : i \in 1..Len(pinches)}
    IN  IF pinchRun = Null THEN pinching ELSE old \cap pinching

EndedAfter(old, present) ==
    IF ~present /\ old # Null THEN Some(Val(old).start) ELSE Null

\* a detector constructed without a callback
onResultsCallback_Unset == FALSE

\* this.onResultsCallback: main.js constructs the detector with
\* onHandResults
onResultsCallback == TRUE

\* onResults signalling the restart on the 300th frame only
Starved_Once(count) == count = maxNoDetection

\* onResults: no hand for too long, the camera is restarted
Starved(count) == count >= maxNoDetection

\* onResults taking every frame
Ignored_Never == FALSE

\* onResults: if (!this.isInitialized) return;
Ignored == ~isInitialized

\* onResults(results): one landmark frame, dt after the previous one.
\* The frame-rate meter, the status line and the drawing on the canvas only
\* display and are left out.
OnResults(frame, dt) ==
    /\ now + dt <= MaxNow
    /\ now' = now + dt
    /\ IF Ignored
       THEN UNCHANGED <<isInitialized, detectorInit, hand1Rotation, hand2Rotation,
                        lastLeftRotation, lastRightRotation, noDetectionCount,
                        pinchActive, pinchPosition, pinchHand, fistHoldStart,
                        pinchHoldStart, fistActive, pinchActiveConfirmed,
                        restartsInFlight, event, seen, prevRotation, run, ended>>
       ELSE \E g \in {getHandRotationAngle(frame, now')}, o \in {Observe[frame]} :
            LET handsDetected == Len(frame)
                count == IF handsDetected = 0 THEN noDetectionCount + 1 ELSE 0
            IN  /\ fistHoldStart' = g.fistHoldStart
                /\ fistActive' = g.fistActive
                /\ lastLeftRotation' = g.lastLeftRotation
                /\ lastRightRotation' = g.lastRightRotation
                /\ pinchHoldStart' = g.pinchHoldStart
                /\ pinchActiveConfirmed' = g.pinchActiveConfirmed
                /\ pinchActive' = g.pinchActive
                /\ pinchPosition' = g.pinchPosition
                /\ pinchHand' = g.pinchHand
                /\ hand1Rotation' = g.left
                /\ hand2Rotation' = g.right
                /\ noDetectionCount' = count
                /\ restartsInFlight' =
                       IF handsDetected = 0 /\ Starved(count)
                       THEN restartsInFlight + 1 ELSE restartsInFlight
                /\ event' = IF onResultsCallback
                            THEN Some([handsDetected |-> handsDetected,
                                       leftRotation |-> g.left,
                                       rightRotation |-> g.right,
                                       pinch |-> [active |-> g.pinchActive,
                                                  position |-> g.pinchPosition,
                                                  hand |-> g.pinchHand]])
                            ELSE event
                /\ seen' = Some(o)
                /\ prevRotation' = [left |-> hand1Rotation, right |-> hand2Rotation]
                /\ run' = [left |-> RunAfter(run.left, o.left # Null, now',
                                             IF o.left # Null THEN Val(o.left) ELSE 0,
                                             ended.left),
                           right |-> RunAfter(run.right, o.right # Null, now',
                                              IF o.right # Null THEN Val(o.right) ELSE 0,
                                              ended.right),
                           pinch |-> RunAfter(run.pinch, Len(o.pinches) > 0, now', 0, Null),
                           holders |-> HoldersAfter(run.holders, run.pinch, o.pinches)]
                /\ ended' = [left |-> EndedAfter(run.left, o.left # Null),
                             right |-> EndedAfter(run.right, o.right # Null)]
                /\ UNCHANGED <<isInitialized, detectorInit>>
    /\ UNCHANGED <<handLandmarks, classified>>
    /\ UNCHANGED audioVars
    /\ UNCHANGED mainVars

\* init(): await this.camera.start() resolves
DetectorStarted ==
    /\ detectorInit = "starting"
    /\ detectorInit' = "started"
    /\ isInitialized' = TRUE
    /\ UNCHANGED <<now, hand1Rotation, hand2Rotation, lastLeftRotation,
                   lastRightRotation, noDetectionCount, pinchActive, pinchPosition,
                   pinchHand, fistHoldStart, pinchHoldStart, fistActive,
                   pinchActiveConfirmed, restartsInFlight, event, seen,
                   prevRotation, run, ended, handLandmarks, classified>>
    /\ UNCHANGED audioVars
    /\ UNCHANGED mainVars

\* init(): a step throws or camera.start() rejects; the catch only logs
DetectorFailed ==
    /\ detectorInit = "starting"
    /\ detectorInit' = "failed"
    /\ UNCHANGED <<now, isInitialized, hand1Rotation, hand2Rotation,
                   lastLeftRotation, lastRightRotation, noDetectionCount,
                   pinchActive, pinchPosition, pinchHand, fistHoldStart,
                   pinchHoldStart, fistActive, pinchActiveConfirmed,
                   restartsInFlight, event, seen, prevRotation, run, ended,
                   handLandmarks, classified>>
    /\ UNCHANGED audioVars
    /\ UNCHANGED mainVars

\* restartCamera(): camera.stop() and camera.start() have resolved
RestartSucceeded ==
    /\ restartsInFlight > 0
    /\ restartsInFlight' = restartsInFlight - 1
    /\ noDetectionCount' = 0
    /\ UNCHANGED <<now, isInitialized, detectorInit, hand1Rotation,
                   hand2Rotation, lastLeftRotation, lastRightRotation,
                   pinchActive, pinchPosition, pinchHand, fistHoldStart,
                   pinchHoldStart, fistActive, pinchActiveConfirmed, event,
                   seen, prevRotation, run, ended, handLandmarks, classified>>
    /\ UNCHANGED audioVars
    /\ UNCHANGED mainVars

\* restartCamera(): camera.stop() or camera.start() rejects, or there is
\* no camera; the catch only logs
RestartFailed ==
    /\ restartsInFlight > 0
    /\ restartsInFlight' = restartsInFlight - 1
    /\ UNCHANGED <<now, isInitialized, detectorInit, hand1Rotation,
                   hand2Rotation, lastLeftRotation, lastRightRotation,
                   noDetectionCount, pinchActive, pinchPosition, pinchHand,
                   fistHoldStart, pinchHoldStart, fistActive,
                   pinchActiveConfirmed, event, seen, prevRotation, run, ended,
                   handLandmarks, classified>>
    /\ UNCHANGED audioVars
    /\ UNCHANGED mainVars

\* the detector started and fed with StarvedFrames frames without a hand,
\* one after the other: only the counter has moved
StarvingInit ==
    /\ now = 0
    /\ isInitialized = TRUE
    /\ detectorInit = "started"
    /\ hand1Rotation = 0
    /\ hand2Rotation = 0
    /\ lastLeftRotation = 0
    /\ lastRightRotation = 0
    /\ noDetectionCount = StarvedFrames
    /\ pinchActive = FALSE
    /\ pinchPosition = Null
    /\ pinchHand = Null
    /\ fistHoldStart = [left |-> Null, right |-> Null]
    /\ pinchHoldStart = Null
    /\ fistActive = [left |-> FALSE, right |-> FALSE]
    /\ pinchActiveConfirmed = FALSE
    /\ restartsInFlight = 0
    /\ event = Null
    /\ seen = Null
    /\ prevRotation = [left |-> 0, right |-> 0]
    /\ run = [left |-> Null, right |-> Null, pinch |-> Null, holders |-> {}]
    /\ ended = [left |-> Null, right |-> Null]
    /\ handLandmarks = Null
    /\ classified = Null

(***************************************************************************)
(* AudioEngine                                                             *)
(***************************************************************************)
\* static STATE
UNINITIALIZED == "uninitialized"
INITIALIZING == "initializing"
INITIALIZED == "initialized"
ERROR == "error"

\* a JavaScript value: its typeof, what kind of number it is, and for a
\* finite number its value (a setter's amount in hundredths, a frequency in
\* ten-thousandths of a hertz)
Num(v) == <<"number", "finite", v>>
NaN == <<"number", "NaN", 0>>
Infinity == <<"number", "Infinity", 0>>
Undefined == <<"undefined", "", 0>>
Function == <<"function", "", 0>>
typeof(value) == value[1]
isNaN(value) == value[2] = "NaN"
isFinite(value) == value[2] = "finite"

\* the C major voicing of the constructor: 130.81, 196.00, 261.63, 329.63
CMajorFreqs == <<Num(1308100), Num(1960000), Num(2616300), Num(3296300)>>

\* a key name is the sequence of its characters
KeyC == <<"C">>
KeyG == <<"G">>
KeyAm == <<"A", "m">>
KeyFSharpM == <<"F", "#", "m">>
KeyBb == <<"B", "b">>
KeyH == <<"H">>
KeyM == <<"m">>
KeyHm == <<"H", "m">>
KeyToString == <<"t", "o", "S", "t", "r", "i", "n", "g">>

\* static ROOT_FREQUENCIES, in hundredths of a hertz
RootNames ==
    {<<"C">>, <<"C", "#">>, <<"D", "b">>, <<"D">>, <<"D", "#">>, <<"E", "b">>,
     <<"E">>, <<"F">>, <<"F", "#">>, <<"G", "b">>, <<"G">>, <<"G", "#">>,
     <<"A", "b">>, <<"A">>, <<"A", "#">>, <<"B", "b">>, <<"B">>}

NaturalHz(letter) ==
    CASE letter = "C" -> 13081 [] letter = "D" -> 14683 [] letter = "E" -> 16481
      [] letter = "F" -> 17461 [] letter = "G" -> 19600 [] letter = "A" -> 22000
      [] letter = "B" -> 24694

SharpHz(letter) ==
    CASE letter = "C" -> 13859 [] letter = "D" -> 15556 [] letter = "F" -> 18500
      [] letter = "G" -> 20765 [] letter = "A" -> 23308

FlatHz(letter) ==
    CASE letter = "D" -> 13859 [] letter = "E" -> 15556 [] letter = "G" -> 18500
      [] letter = "A" -> 20765 [] letter = "B" -> 23308

ROOT_FREQUENCIES ==
    [name \in RootNames |->
        IF Len(name) = 1 THEN NaturalHz(name[1])
        ELSE IF name[2] = "#" THEN SharpHz(name[1])
        ELSE FlatHz(name[1])]

\* the properties every object literal inherits from Object.prototype, of
\* which the model's inputs name one
InheritedNames == {KeyToString}

\* AudioEngine.ROOT_FREQUENCIES[rootName]
RootFrequency(rootName) ==
    IF rootName \in RootNames THEN Num(ROOT_FREQUENCIES[rootName] * 100)
    ELSE IF rootName \in InheritedNames THEN Function
    ELSE Undefined

\* static MAJOR_INTERVALS, MINOR_INTERVALS, in hundredths
MAJOR_INTERVALS == <<100, 150, 200, 252>>
MINOR_INTERVALS == <<100, 150, 200, 240>>

\* rootFreq * ratio
Times(value, ratio) ==
    IF typeof(value) = "number" /\ isFinite(value)
    THEN Num((value[3] * ratio) \div 100)
    ELSE NaN

\* endsWith never finding the suffix
endsWith_Never(keyName, char) == FALSE

endsWith(keyName, char) == Len(keyName) > 0 /\ keyName[Len(keyName)] = char

\* keyName.slice(0, -1)
DropLast(keyName) == SubSeq(keyName, 1, Len(keyName) - 1)

\* the amounts the setters are called with: 0, 0.3, 0.5, 0.7, 1 and 1.5, and
\* values that are no amount
ValidAmounts == {Num(0), Num(30), Num(50), Num(70), Num(100), Num(150)}
InvalidAmounts == {NaN, Infinity, Undefined}

\* the history of a parameter before any setter call, and after one more
\* call that found the amount `queued` pending
NoCalls == [valid |-> Null, superseded |-> Null, last |-> Null]

ExpectedAfter(old, amount, queued, initialized) ==
    [valid |-> IF amount \in ValidAmounts THEN Some(amount[3])
               ELSE IF old.valid = Null THEN Some(0)
               ELSE old.valid,
     superseded |-> IF ~initialized /\ queued # Null THEN queued
                    ELSE old.superseded,
     last |-> amount]

\* constructor
AudioEngineInit ==
    /\ roundedVoices = <<>>
    /\ saturatedVoices = <<>>
    /\ roundedLFOs = <<>>
    /\ saturatedLFOs = <<>>
    /\ chain = "none"
    /\ state = UNINITIALIZED
    /\ initPromise = Null
    /\ pendingIntensity = Null
    /\ pendingWidth = Null
    /\ lastValidIntensity = 0
    /\ lastValidWidth = 0
    /\ currentKey = KeyC
    /\ isMinor = FALSE
    /\ baseFreqs = CMajorFreqs
    /\ expected = [intensity |-> NoCalls, width |-> NoCalls]
    /\ replayed = [intensity |-> <<>>, width |-> <<>>]
    /\ keyCall = [name |-> Null, flip |-> FALSE]
    /\ appliedIntensity = Null
    /\ appliedWidth = Null
    /\ initPc = "idle"
    /\ attempts = 0
    /\ promises = <<>>
    /\ listening = TRUE
    /\ calls = <<>>

\* get isInitialized()
audioIsInitialized == state = INITIALIZED

\* _validateNumber without the isFinite test
_validateNumber_NoFiniteCheck(value, fallback) ==
    IF typeof(value) # "number" \/ isNaN(value)
    THEN fallback
    ELSE value[3]

_validateNumber(value, fallback) ==
    IF typeof(value) # "number" \/ isNaN(value) \/ ~isFinite(value)
    THEN fallback
    ELSE value[3]

_clamp(value, min, max) == Max(min, Min(max, value))

\* setWidth returning without queueing while the engine is not initialized
setWidth_NotQueued(widthAmount, initialized) ==
    LET validWidth == _validateNumber(widthAmount, lastValidWidth)
    IN  IF ~initialized
        THEN [lastValid |-> validWidth, pending |-> pendingWidth,
              applied |-> appliedWidth]
        ELSE [lastValid |-> validWidth, pending |-> pendingWidth,
              applied |-> Some(_clamp(validWidth, 0, 100))]

\* setWidth(widthAmount) with the engine initialized or not: the fields it
\* leaves behind
setWidth(widthAmount, initialized) ==
    LET validWidth == _validateNumber(widthAmount, lastValidWidth)
    IN  IF ~initialized
        THEN [lastValid |-> validWidth, pending |-> Some(validWidth),
              applied |-> appliedWidth]
        ELSE [lastValid |-> validWidth, pending |-> pendingWidth,
              applied |-> Some(_clamp(validWidth, 0, 100))]

\* setIntensity keeping the amount already queued
setIntensity_KeepQueued(intensityAmount, initialized) ==
    LET validIntensity == _validateNumber(intensityAmount, lastValidIntensity)
    IN  IF ~initialized
        THEN [lastValid |-> validIntensity,
              pending |-> IF pendingIntensity # Null THEN pendingIntensity
                          ELSE Some(validIntensity),
              applied |-> appliedIntensity]
        ELSE [lastValid |-> validIntensity, pending |-> pendingIntensity,
              applied |-> Some(_clamp(validIntensity, 0, 100))]

\* setIntensity(intensityAmount)
setIntensity(intensityAmount, initialized) ==
    LET validIntensity == _validateNumber(intensityAmount, lastValidIntensity)
    IN  IF ~initialized
        THEN [lastValid |-> validIntensity, pending |-> Some(validIntensity),
              applied |-> appliedIntensity]
        ELSE [lastValid |-> validIntensity, pending |-> pendingIntensity,
              applied |-> Some(_clamp(validIntensity, 0, 100))]

\* the inputs of the setters in the model
IntensityInputs == {Num(70), NaN}
WidthInputs == {Num(50), Undefined}

SetWidth(widthAmount) ==
    /\ initPc # "sync"
    /\ LET w == setWidth(widthAmount, audioIsInitialized)
       IN  /\ lastValidWidth' = w.lastValid
           /\ pendingWidth' = w.pending
           /\ appliedWidth' = w.applied
    /\ expected' = [expected EXCEPT !.width =
           ExpectedAfter(@, widthAmount, pendingWidth, audioIsInitialized)]
    /\ UNCHANGED <<state, initPromise, roundedVoices, saturatedVoices, roundedLFOs,
                   saturatedLFOs, chain, pendingIntensity, lastValidIntensity,
                   baseFreqs, appliedIntensity, initPc, attempts, promises,
                   listening, calls, currentKey, isMinor, replayed>>
    /\ UNCHANGED gestureVars
    /\ UNCHANGED keyCall
    /\ UNCHANGED mainVars

SetIntensity(intensityAmount) ==
    /\ initPc # "sync"
    /\ LET i == setIntensity(intensityAmount, audioIsInitialized)
       IN  /\ lastValidIntensity' = i.lastValid
           /\ pendingIntensity' = i.pending
           /\ appliedIntensity' = i.applied
    /\ expected' = [expected EXCEPT !.intensity =
           ExpectedAfter(@, intensityAmount, pendingIntensity, audioIsInitialized)]
    /\ UNCHANGED <<state, initPromise, roundedVoices, saturatedVoices, roundedLFOs,
                   saturatedLFOs, chain, pendingWidth, lastValidWidth,
                   baseFreqs, appliedWidth, initPc, attempts, promises,
                   listening, calls, currentKey, isMinor, replayed>>
    /\ UNCHANGED gestureVars
    /\ UNCHANGED keyCall
    /\ UNCHANGED mainVars

\* init() without its first early return
AlreadyInitialized_Never == FALSE

\* voice.frequency.rampTo(newFreqs[i], this.glideTime) for every voice of a
\* bank: the frequency each oscillator is sent to
Glide(voices, newFreqs) ==
    [i \in 1..Len(voices) |->
        [voices[i] EXCEPT !.frequency = IF i \in DOMAIN newFreqs THEN newFreqs[i]
                                        ELSE Undefined]]

\* the key names setKey is called with in the model
KeyInputs == {KeyG, KeyAm, KeyH, KeyM, KeyToString}

\* every name of the table, each also as a minor key, and names the table
\* does not hold
AllKeyNames ==
    RootNames \cup {Append(root, "m") : root \in RootNames}
        \cup {KeyH, KeyM, KeyHm, KeyToString}

\* setKey gliding the oscillators whatever the engine state
setKey_GlidesUninitialized(keyName) ==
    /\ LET minor == endsWith(keyName, "m")
           rootName == IF minor THEN DropLast(keyName) ELSE keyName
           rootFreq == RootFrequency(rootName)
           intervals == IF minor THEN MINOR_INTERVALS ELSE MAJOR_INTERVALS
           newFreqs == [i \in 1..4 |-> Times(rootFreq, intervals[i])]
       IN  IF rootFreq = Undefined
           THEN UNCHANGED <<currentKey, isMinor, baseFreqs, roundedVoices,
                            saturatedVoices>>
           ELSE /\ currentKey' = keyName
                /\ isMinor' = minor
                /\ baseFreqs' = newFreqs
                /\ roundedVoices' = Glide(roundedVoices, newFreqs)
                /\ saturatedVoices' = Glide(saturatedVoices, newFreqs)
    /\ keyCall' = [name |-> Some(keyName), flip |-> ~keyCall.flip]

\* setKey(keyName): what it does to the key state and to the oscillators
setKey(keyName) ==
    /\ LET minor == endsWith(keyName, "m")
           rootName == IF minor THEN DropLast(keyName) ELSE keyName
           rootFreq == RootFrequency(rootName)
           intervals == IF minor THEN MINOR_INTERVALS ELSE MAJOR_INTERVALS
           newFreqs == [i \in 1..4 |-> Times(rootFreq, intervals[i])]
       IN  IF rootFreq = Undefined
           THEN UNCHANGED <<currentKey, isMinor, baseFreqs, roundedVoices,
                            saturatedVoices>>
           ELSE /\ currentKey' = keyName
                /\ isMinor' = minor
                /\ baseFreqs' = newFreqs
                /\ IF ~audioIsInitialized
                   THEN UNCHANGED <<roundedVoices, saturatedVoices>>
                   ELSE /\ roundedVoices' = Glide(roundedVoices, newFreqs)
                        /\ saturatedVoices' = Glide(saturatedVoices, newFreqs)
    /\ keyCall' = [name |-> Some(keyName), flip |-> ~keyCall.flip]

\* audioEngine.setKey(keyName) called on its own
SetKey(keyName) ==
    /\ initPc # "sync"
    /\ setKey(keyName)
    /\ UNCHANGED <<state, initPromise, roundedLFOs, saturatedLFOs, chain,
                   pendingIntensity, pendingWidth, lastValidIntensity,
                   lastValidWidth, appliedIntensity, appliedWidth, initPc,
                   attempts, promises, listening, calls, expected, replayed>>
    /\ UNCHANGED gestureVars
    /\ UNCHANGED mainVars

\* init() is called and finds the engine initialized
AlreadyInitialized == state = INITIALIZED

\* init() is called while an attempt is in flight
SharesAttempt == state = INITIALIZING /\ initPromise # Null

Call(attempt, via) == [attempt |-> attempt, during |-> state, via |-> via]

\* init(), called by `via`, up to the call of Tone.start() in _doInit():
\* it returns at once, returns the promise of the attempt in flight, or
\* enters _doInit()
init(via) ==
    /\ initPc # "sync"
    /\ Len(calls) < MaxCalls
    /\ IF AlreadyInitialized
       THEN /\ calls' = Append(calls, Call(0, via))
            /\ UNCHANGED <<state, initPc, attempts, promises>>
       ELSE IF SharesAttempt
       THEN /\ calls' = Append(calls, Call(Val(initPromise), via))
            /\ UNCHANGED <<state, initPc, attempts, promises>>
       ELSE /\ attempts < MaxAttempts
            /\ state' = INITIALIZING
            /\ initPc' = "sync"
            /\ attempts' = attempts + 1
            /\ promises' = Append(promises, "pending")
            /\ calls' = Append(calls, Call(attempts + 1, via))
    /\ UNCHANGED <<initPromise, roundedVoices, saturatedVoices, roundedLFOs,
                   saturatedLFOs, chain, pendingIntensity, pendingWidth,
                   lastValidIntensity, lastValidWidth, baseFreqs,
                   appliedIntensity, appliedWidth, currentKey, isMinor,
                   expected, replayed>>

\* audioEngine.init() called directly
AudioInit == init("init") /\ UNCHANGED <<listening, keyCall, gestureVars, mainVars>>

\* main.js startAudio: a click or a key press while the listeners are attached
StartAudio ==
    /\ listening
    /\ initPc # "sync"
    /\ IF audioIsInitialized
       THEN /\ listening' = FALSE
            /\ UNCHANGED <<state, initPromise, roundedVoices, saturatedVoices,
                           roundedLFOs, saturatedLFOs, chain, pendingIntensity,
                           pendingWidth, lastValidIntensity, lastValidWidth,
                           baseFreqs, appliedIntensity, appliedWidth, initPc,
                           attempts, promises, calls, currentKey, isMinor,
                           expected, replayed>>
       ELSE init("startAudio") /\ UNCHANGED listening
    /\ UNCHANGED gestureVars
    /\ UNCHANGED keyCall
    /\ UNCHANGED mainVars

\* the catch of _doInit(): the attempt's promise rejects
Rejected == [promises EXCEPT ![attempts] = "rejected"]

\* Tone.start() returns its promise: _doInit() suspends at its first await
\* and init() stores and returns the promise of the attempt
ToneStartReturns ==
    /\ initPc = "sync"
    /\ initPc' = "awaitStart"
    /\ initPromise' = Some(attempts)
    /\ UNCHANGED <<state, roundedVoices, saturatedVoices, roundedLFOs,
                   saturatedLFOs, chain, pendingIntensity, pendingWidth,
                   lastValidIntensity, lastValidWidth, baseFreqs,
                   appliedIntensity, appliedWidth, attempts, promises,
                   listening, calls>>
    /\ UNCHANGED gestureVars
    /\ UNCHANGED <<currentKey, isMinor, expected, replayed>>
    /\ UNCHANGED keyCall
    /\ UNCHANGED mainVars

\* Tone.start() throws before _doInit() reaches its first await: the catch
\* runs inside the call this._doInit(), and init() then stores the promise
\* that call returns, which is rejected
ToneStartThrows ==
    /\ initPc = "sync"
    /\ initPc' = "idle"
    /\ state' = ERROR
    /\ promises' = Rejected
    /\ initPromise' = Some(attempts)
    /\ UNCHANGED <<roundedVoices, saturatedVoices, roundedLFOs, saturatedLFOs,
                   chain, pendingIntensity, pendingWidth, lastValidIntensity,
                   lastValidWidth, baseFreqs, appliedIntensity, appliedWidth,
                   attempts, listening, calls>>
    /\ UNCHANGED gestureVars
    /\ UNCHANGED <<currentKey, isMinor, expected, replayed>>
    /\ UNCHANGED keyCall
    /\ UNCHANGED mainVars

\* the catch of _doInit() after its first await
Catch ==
    /\ initPc' = "idle"
    /\ state' = ERROR
    /\ initPromise' = Null
    /\ promises' = Rejected

\* await Tone.start() rejects
ToneStartRejected ==
    /\ initPc = "awaitStart"
    /\ Catch
    /\ UNCHANGED <<roundedVoices, saturatedVoices, roundedLFOs, saturatedLFOs,
                   chain, pendingIntensity, pendingWidth, lastValidIntensity,
                   lastValidWidth, baseFreqs, appliedIntensity, appliedWidth,
                   attempts, listening, calls>>
    /\ UNCHANGED gestureVars
    /\ UNCHANGED <<currentKey, isMinor, expected, replayed>>
    /\ UNCHANGED keyCall
    /\ UNCHANGED mainVars

\* await Tone.start() resolves: master gain and reverb are built and
\* reverb.generate() is awaited, or one of these steps throws
ToneStartResolved(throws) ==
    /\ initPc = "awaitStart"
    /\ IF throws
       THEN Catch /\ chain' = "partial"
       ELSE /\ initPc' = "awaitReverb"
            /\ chain' = "reverb"
            /\ UNCHANGED <<state, initPromise, promises>>
    /\ UNCHANGED <<roundedVoices, saturatedVoices, roundedLFOs, saturatedLFOs,
                   pendingIntensity, pendingWidth, lastValidIntensity,
                   lastValidWidth, baseFreqs, appliedIntensity, appliedWidth,
                   attempts, listening, calls>>
    /\ UNCHANGED gestureVars
    /\ UNCHANGED <<currentKey, isMinor, expected, replayed>>
    /\ UNCHANGED keyCall
    /\ UNCHANGED mainVars

\* await this.reverb.generate() rejects
ReverbRejected ==
    /\ initPc = "awaitReverb"
    /\ Catch
    /\ UNCHANGED <<roundedVoices, saturatedVoices, roundedLFOs, saturatedLFOs,
                   chain, pendingIntensity, pendingWidth, lastValidIntensity,
                   lastValidWidth, baseFreqs, appliedIntensity, appliedWidth,
                   attempts, listening, calls>>
    /\ UNCHANGED gestureVars
    /\ UNCHANGED <<currentKey, isMinor, expected, replayed>>
    /\ UNCHANGED keyCall
    /\ UNCHANGED mainVars

\* where the rest of _doInit() can throw: while the effects are built, or
\* in a voice bank's forEach after n voices were pushed (the constructor of
\* voice n + 1 throws, or the start() of voice n)
ThrowPoints ==
    {[at |-> "none", n |-> 0], [at |-> "effects", n |-> 0]}
        \cup [at : {"rounded", "saturated"}, n : 0..4]

\* the voices a forEach over baseFreqs pushes before it stops after n: each
\* a new oscillator, made by this attempt, at the frequency it was built with
Pushed(n) == [i \in 1..n |-> [frequency |-> baseFreqs[i], madeBy |-> attempts]]

\* the LFO frequencies, in hundredths of a hertz: 0.08 + i * 0.02, 0.09 + i * 0.02
RoundedLFOFreqs == [i \in 1..4 |-> 8 + (i - 1) * 2]
SaturatedLFOFreqs == [i \in 1..4 |-> 9 + (i - 1) * 2]

\* a startAudio call awaits the attempt in flight
StartAudioAwaits ==
    \E j \in 1..Len(calls) : calls[j].attempt = attempts /\ calls[j].via = "startAudio"

\* await this.reverb.generate() resolves: the rest of _doInit() runs to its
\* end, or to the step that throws
ReverbGenerated(throw) ==
    /\ initPc = "awaitReverb"
    /\ IF throw.at = "none"
       THEN LET w == IF pendingWidth # Null
                     THEN setWidth(Num(Val(pendingWidth)), TRUE)
                     ELSE [lastValid |-> lastValidWidth, pending |-> pendingWidth,
                           applied |-> appliedWidth]
                i == IF pendingIntensity # Null
                     THEN setIntensity(Num(Val(pendingIntensity)), TRUE)
                     ELSE [lastValid |-> lastValidIntensity,
                           pending |-> pendingIntensity,
                           applied |-> appliedIntensity]
            IN  /\ chain' = "full"
                /\ roundedVoices' = roundedVoices \o Pushed(4)
                /\ roundedLFOs' = roundedLFOs \o SubSeq(RoundedLFOFreqs, 1, 4)
                /\ saturatedVoices' = saturatedVoices \o Pushed(4)
                /\ saturatedLFOs' = saturatedLFOs \o SubSeq(SaturatedLFOFreqs, 1, 4)
                /\ state' = INITIALIZED
                /\ lastValidWidth' = w.lastValid
                /\ appliedWidth' = w.applied
                /\ pendingWidth' = Null
                /\ lastValidIntensity' = i.lastValid
                /\ appliedIntensity' = i.applied
                /\ pendingIntensity' = Null
                /\ replayed' =
                       [width |-> IF pendingWidth # Null
                                  THEN Append(replayed.width, Val(w.applied))
                                  ELSE replayed.width,
                        intensity |-> IF pendingIntensity # Null
                                      THEN Append(replayed.intensity, Val(i.applied))
                                      ELSE replayed.intensity]
                /\ initPc' = "idle"
                /\ promises' = [promises EXCEPT ![attempts] = "fulfilled"]
                /\ listening' = IF StartAudioAwaits THEN FALSE ELSE listening
                /\ UNCHANGED initPromise
       ELSE /\ Catch
            /\ chain' = IF throw.at = "effects" THEN "partial" ELSE "full"
            /\ roundedVoices' = roundedVoices \o
                   Pushed(IF throw.at = "rounded" THEN throw.n
                          ELSE IF throw.at = "saturated" THEN 4 ELSE 0)
            /\ roundedLFOs' = roundedLFOs \o
                   SubSeq(RoundedLFOFreqs, 1,
                          IF throw.at = "rounded" THEN throw.n
                          ELSE IF throw.at = "saturated" THEN 4 ELSE 0)
            /\ saturatedVoices' = saturatedVoices \o
                   Pushed(IF throw.at = "saturated" THEN throw.n ELSE 0)
            /\ saturatedLFOs' = saturatedLFOs \o
                   SubSeq(SaturatedLFOFreqs, 1,
                          IF throw.at = "saturated" THEN throw.n ELSE 0)
            /\ UNCHANGED <<pendingIntensity, pendingWidth, lastValidIntensity,
                           lastValidWidth, appliedIntensity, appliedWidth,
                           listening, replayed>>
    /\ UNCHANGED <<baseFreqs, attempts, calls>>
    /\ UNCHANGED gestureVars
    /\ UNCHANGED <<currentKey, isMinor, expected>>
    /\ UNCHANGED keyCall
    /\ UNCHANGED mainVars

NextAudio ==
    \/ AudioInit
    \/ StartAudio
    \/ ToneStartReturns
    \/ ToneStartThrows
    \/ ToneStartRejected
    \/ \E throws \in BOOLEAN : ToneStartResolved(throws)
    \/ ReverbRejected
    \/ \E throw \in ThrowPoints : ReverbGenerated(throw)
    \/ \E w \in WidthInputs : SetWidth(w)
    \/ \E i \in IntensityInputs : SetIntensity(i)

(***************************************************************************)
(* main.js, KeyOverlay and AsciiRenderer: key selection with the pinch.    *)
(* Angles are hundredths of a degree, normalized positions and radii are   *)
(* hundredths, pixels are whole, opacity and the renderer's amounts are    *)
(* hundredths.                                                             *)
(***************************************************************************)
Abs(n) == IF n < 0 THEN -n ELSE n

\* circle of fifths order, clockwise from the top
MAJOR_KEYS ==
    << <<"C">>, <<"G">>, <<"D">>, <<"A">>, <<"E">>, <<"B">>, <<"F", "#">>,
       <<"D", "b">>, <<"A", "b">>, <<"E", "b">>, <<"B", "b">>, <<"F">> >>
MINOR_KEYS ==
    << <<"A", "m">>, <<"E", "m">>, <<"B", "m">>, <<"F", "#", "m">>,
       <<"C", "#", "m">>, <<"G", "#", "m">>, <<"E", "b", "m">>,
       <<"B", "b", "m">>, <<"F", "m">>, <<"C", "m">>, <<"G", "m">>,
       <<"D", "m">> >>

\* layout: fractions of the smaller canvas dimension, in hundredths
CENTER_RADIUS == 12
INNER_RADIUS == 25
OUTER_RADIUS == 42

\* animation, in milliseconds
FADE_DURATION == 200
ROTATION_DURATION == 300
HIDE_DELAY == 1500

\* 2 * Math.PI and one of the twelve segments
TwoPi == 36000
SegmentAngle == TwoPi \div 12

\* resize(): the canvas takes the size of the window
innerWidth == 300
innerHeight == 200
centerX == innerWidth \div 2
centerY == innerHeight \div 2
minDim == Min(innerWidth, innerHeight)

\* Math.atan2(y, x): exact at the multiples of 45 degrees, on the right
\* side of every multiple of 15 degrees (tan 30 = 1 / sqrt(3) and
\* tan 15 = 2 - sqrt(3), compared in squares), interpolated linearly in
\* between
atan2(y, x) ==
    LET ay == Abs(y)
        ax == Abs(x)
        lo == Min(ax, ay)
        hi == Max(ax, ay)
        \* the angle from the nearer axis, 0 to 45 degrees
        t == IF hi = 0 THEN 0
             ELSE IF lo = hi THEN 4500
             ELSE IF (2 * hi - lo) * (2 * hi - lo) > 3 * hi * hi
             THEN Min(1499, (lo * 5598) \div hi)
             ELSE IF 3 * lo * lo < hi * hi
             THEN Max(1501, Min(2999,
                      1501 + (((lo * 10000) \div hi - 2679) * 1498) \div 3095))
             ELSE Max(3001, Min(4499,
                      3001 + (((lo * 10000) \div hi - 5774) * 1498) \div 4226))
        q == IF ay <= ax THEN t ELSE 9000 - t
        a == IF x >= 0 THEN q ELSE 18000 - q
    IN  IF y >= 0 THEN a ELSE -a

\* the % of JavaScript: the result takes the sign of the dividend
Remainder(a, n) == IF a >= 0 THEN a % n ELSE -((-a) % n)

\* Array.prototype.indexOf, counting from 0
indexOf(array, value) ==
    IF \E i \in 1..Len(array) : array[i] = value
    THEN (CHOOSE i \in 1..Len(array) :
              array[i] = value /\ \A j \in 1..(i - 1) : array[j] # value) - 1
    ELSE -1

\* array[index] of JavaScript: undefined outside the array
At(array, index) ==
    IF index + 1 \in 1..Len(array) THEN Some(array[index + 1]) ELSE Null

getKeyIndex(keyName) ==
    LET index == indexOf(MAJOR_KEYS, keyName)
    IN  IF index = -1 THEN indexOf(MINOR_KEYS, keyName) ELSE index

\* distance < radius * minDim, both sides squared
Within(distance2, radius) ==
    10000 * distance2 < radius * radius * minDim * minDim

\* getKeyAtPosition without the test for the centre
Ring_NoDeadZone(distance2) ==
    IF Within(distance2, INNER_RADIUS) THEN "minor"
    ELSE IF Within(distance2, OUTER_RADIUS) THEN "major"
    ELSE "outside"

\* getKeyAtPosition with the rings taken in the other order
Ring_Swapped(distance2) ==
    IF Within(distance2, CENTER_RADIUS) THEN "center"
    ELSE IF Within(distance2, INNER_RADIUS) THEN "major"
    ELSE IF Within(distance2, OUTER_RADIUS) THEN "minor"
    ELSE "outside"

\* getKeyAtPosition: the part of the wheel at that distance from the centre
Ring(distance2) ==
    IF Within(distance2, CENTER_RADIUS) THEN "center"
    ELSE IF Within(distance2, INNER_RADIUS) THEN "minor"
    ELSE IF Within(distance2, OUTER_RADIUS) THEN "major"
    ELSE "outside"

\* the wheel at rest with key i at the top: -i * (Math.PI * 2 / 12)
RestOffset(i) == -i * SegmentAngle

\* The angle of a point on one of the four axes is a multiple of 90
\* degrees, and with the wheel at rest the adjusted angle is a whole
\* number of segments.  The doubles of (angle - rotationOffset + 2 PI) %
\* (2 PI) and the quotient by 2 PI / 12 then fall on or just below that
\* number: per axis and per rest offset -i * (2 PI / 12), i = 0 .. 11, the
\* index Math.floor gives less the whole number.
BoundarySlip ==
    [up    |-> <<0, 0, -1, 0, -1, 0, 0, -1, -1, 0, 0, 0>>,
     right |-> <<0, -1, 0, 0, -1, -1, 0, 0, 0, 0, -1, -1>>,
     down  |-> <<0, -1, -1, 0, 0, 0, 0, -1, -1, 0, -1, 0>>,
     left  |-> <<0, 0, 0, 0, -1, -1, 0, -1, 0, 0, -1, -1>>]

\* the axis a point lies on, dx to the right and dy down from the centre
Axis(dx, dy) ==
    IF dx = 0 /\ dy < 0 THEN "up"
    ELSE IF dy = 0 /\ dx > 0 THEN "right"
    ELSE IF dx = 0 /\ dy > 0 THEN "down"
    ELSE IF dy = 0 /\ dx < 0 THEN "left"
    ELSE "none"

\* the segment index with the segments centred on their keys, as drawRing
\* draws them
SegmentIndex_Centred(dx, dy, offset) ==
    LET raw == atan2(dx, -dy)
        angle == IF raw < 0 THEN raw + TwoPi ELSE raw
    IN  Remainder(angle - offset + SegmentAngle \div 2 + TwoPi, TwoPi)
            \div SegmentAngle

\* the segment index without the remainder by 2 PI
SegmentIndex_Unwrapped(dx, dy, offset) ==
    LET raw == atan2(dx, -dy)
        angle == IF raw < 0 THEN raw + TwoPi ELSE raw
    IN  (angle - offset + TwoPi) \div SegmentAngle

\* getKeyAtPosition: the segment index of a point, the wheel turned by
\* offset
SegmentIndex(dx, dy, offset) ==
    LET raw == atan2(dx, -dy)
        angle == IF raw < 0 THEN raw + TwoPi ELSE raw
        adjusted == Remainder(angle - offset + TwoPi, TwoPi)
        atRest == /\ Axis(dx, dy) # "none"
                  /\ offset \in {RestOffset(i) : i \in 0..11}
    IN  adjusted \div SegmentAngle
        + (IF atRest
           THEN BoundarySlip[Axis(dx, dy)][(-offset) \div SegmentAngle + 1]
           ELSE 0)

\* drawRing: the index of the segment whose arc from startAngle to endAngle
\* holds the point, in the angles of the canvas (0 to the right, clockwise)
DrawnSegmentIndex(dx, dy, offset) ==
    LET raw == atan2(dy, dx)
        angle == IF raw < 0 THEN raw + TwoPi ELSE raw
    IN  CHOOSE i \in 0..11 :
            LET startAngle == i * SegmentAngle + offset - TwoPi \div 4
                              - SegmentAngle \div 2
            IN  (angle - startAngle) % TwoPi < SegmentAngle

\* drawOverlay: the key of the segment drawn at a position, the wheel turned
\* by offset: the outer ring holds the major keys, the inner ring the minor
\* keys (the glitch that moves the arcs by a few pixels is left out)
DrawnKeyAt(normalizedPos, offset) ==
    LET x == (Val(normalizedPos).x * innerWidth) \div 100
        y == (Val(normalizedPos).y * innerHeight) \div 100
        dx == x - centerX
        dy == y - centerY
        ring == Ring(dx * dx + dy * dy)
        i == DrawnSegmentIndex(dx, dy, offset)
    IN  IF ring = "minor" THEN At(MINOR_KEYS, i)
        ELSE IF ring = "major" THEN At(MAJOR_KEYS, i)
        ELSE Null

\* getKeyAtPosition(normalizedPos) with the wheel turned by offset
KeyAt(normalizedPos, offset) ==
    IF normalizedPos = Null THEN Null
    ELSE LET x == (Val(normalizedPos).x * innerWidth) \div 100
             y == (Val(normalizedPos).y * innerHeight) \div 100
             dx == x - centerX
             dy == y - centerY
             ring == Ring(dx * dx + dy * dy)
             segmentIndex == SegmentIndex(dx, dy, offset)
         IN  IF ring = "minor" THEN At(MINOR_KEYS, segmentIndex)
             ELSE IF ring = "major" THEN At(MAJOR_KEYS, segmentIndex)
             ELSE Null

getKeyAtPosition(normalizedPos) == KeyAt(normalizedPos, rotationOffset)

\* AsciiRenderer: the constant warble, in hundredths of a pixel
baseDrift == 200

\* validateRotation(value)
validateRotation(value) ==
    IF typeof(value) # "number" \/ isNaN(value) \/ ~isFinite(value)
    THEN Num(0)
    ELSE value

\* the amount taken over 45 degrees, as setSaturation takes it
RotationAmount_By45(rotation) == Num((Abs(rotation[3]) * 100) \div 45)

\* Math.abs(rotation) / 90 as the engine's setters receive it, in hundredths
RotationAmount(rotation) == Num((Abs(rotation[3]) * 100) \div 90)

\* setSaturation(leftRotation): Math.abs(leftRotation) / 45
setSaturation(leftRotation) == (Abs(leftRotation[3]) * 100) \div 45

\* setDrift(rightRotation): baseDrift + Math.abs(rightRotation) / 3.6
setDrift(rightRotation) == baseDrift + (Abs(rightRotation[3]) * 1000) \div 36

\* the state after the load listener has constructed the renderer and the
\* overlay
MainInit ==
    /\ mainCurrentKey = KeyC
    /\ mainHoveredKey = Null
    /\ wasPinching = FALSE
    /\ saturationMultiplier = 0
    /\ driftAmount = baseDrift
    /\ visible = FALSE
    /\ opacity = 0
    /\ overlayCurrentKey = KeyC
    /\ overlayHoveredKey = Null
    /\ rotationOffset = 0
    /\ targetRotationOffset = 0
    /\ overlayPinchPosition = Null
    /\ fadeStartTime = Null
    /\ fadeDirection = 0
    /\ rotationStartTime = Null
    /\ rotationStartOffset = 0
    /\ hideTimeout = Null
    /\ timers = {}
    /\ lastFrame = Null
    /\ lastHover = Null
    /\ lastFiring = Null
    /\ hitTest = Null

\* the handle setTimeout returns: one no outstanding timer bears
NewTimer ==
    CHOOSE id \in 1..(Cardinality(timers) + 2) :
        /\ \A t \in timers : t.id # id
        /\ hideTimeout # Some(id)

\* clearTimeout(handle)
clearTimeout(handle) == {t \in timers : t.id # handle}

\* show(); the caller's clock has advanced to now'
show ==
    IF visible /\ fadeDirection >= 0
    THEN UNCHANGED <<hideTimeout, timers, visible, fadeDirection, fadeStartTime>>
    ELSE /\ IF hideTimeout # Null
            THEN /\ timers' = clearTimeout(Val(hideTimeout))
                 /\ hideTimeout' = Null
            ELSE UNCHANGED <<hideTimeout, timers>>
         /\ visible' = TRUE
         /\ fadeDirection' = 1
         /\ fadeStartTime' = Some(now')

\* hide() returning at once, whatever the state of the overlay
hide_Ignored == UNCHANGED <<fadeDirection, fadeStartTime>>

\* hide(): starts the fade-out; render() completes it
hide ==
    IF ~visible /\ fadeDirection <= 0
    THEN UNCHANGED <<fadeDirection, fadeStartTime>>
    ELSE /\ fadeDirection' = -1
         /\ fadeStartTime' = Some(now')

\* hideWithDelay scheduling its timer next to the one already pending
hideWithDelay_KeepsPrevious(delay) ==
    /\ timers' = timers \cup {[id |-> NewTimer, due |-> now' + delay]}
    /\ hideTimeout' = Some(NewTimer)

\* hideWithDelay(delay)
hideWithDelay(delay) ==
    /\ timers' = (IF hideTimeout # Null THEN clearTimeout(Val(hideTimeout))
                  ELSE timers)
                 \cup {[id |-> NewTimer, due |-> now' + delay]}
    /\ hideTimeout' = Some(NewTimer)

\* setCurrentKey returning at once, whatever the key
setCurrentKey_Ignored(keyName) ==
    UNCHANGED <<overlayCurrentKey, rotationStartOffset, targetRotationOffset,
                rotationStartTime>>

\* setCurrentKey(keyName): turns the wheel so that the key comes to the top
setCurrentKey(keyName) ==
    IF keyName = overlayCurrentKey
    THEN UNCHANGED <<overlayCurrentKey, rotationStartOffset,
                     targetRotationOffset, rotationStartTime>>
    ELSE /\ overlayCurrentKey' = keyName
         /\ IF getKeyIndex(keyName) # -1
            THEN /\ rotationStartOffset' = rotationOffset
                 /\ targetRotationOffset' = -getKeyIndex(keyName) * SegmentAngle
                 /\ rotationStartTime' = Some(now')
            ELSE UNCHANGED <<rotationStartOffset, targetRotationOffset,
                             rotationStartTime>>

\* the release test of onHandResults taken without the comparison with the
\* current key
CommitsKey_AnyHovered(was, hovered, current) == was /\ hovered # Null

\* onHandResults: the pinch was just released over a key other than the
\* current one
CommitsKey(was, hovered, current) ==
    was /\ hovered # Null /\ hovered # Some(current)

\* the effects updated in every frame
UpdatesEffects_Always(isPinching) == TRUE

\* onHandResults: the effects are updated in the branch of a frame without
\* a pinch
UpdatesEffects(isPinching) == ~isPinching

\* the resolution of the rotation's easing, in milliseconds, and the steps
\* of one rotation
EaseStep == 10
EaseSteps == ROTATION_DURATION \div EaseStep

\* the fields of the detector, the clock apart
detectorVars ==
    <<isInitialized, detectorInit, hand1Rotation, hand2Rotation,
      lastLeftRotation, lastRightRotation, noDetectionCount, pinchActive,
      pinchPosition, pinchHand, fistHoldStart, pinchHoldStart, fistActive,
      pinchActiveConfirmed, restartsInFlight, event, seen, prevRotation, run,
      ended, handLandmarks, classified>>

\* timers fire when they are due: nothing else runs past a due time
NoTimerOverdue(at) == \A t \in timers : at <= t.due

\* onHandResults(results), dt after the last step
OnHandResults(results, dt) ==
    /\ initPc # "sync"
    /\ now + dt <= MaxMainNow
    /\ NoTimerOverdue(now + dt)
    /\ now' = now + dt
    /\ \E leftRotation \in {validateRotation(results.leftRotation)},
          rightRotation \in {validateRotation(results.rightRotation)},
          isPinching \in {results.pinch.active},
          commits \in {CommitsKey(wasPinching, mainHoveredKey, mainCurrentKey)} :
          /\ IF isPinching
             THEN \E flippedPosition \in
                      {Some([x |-> 100 - Val(results.pinch.position).x,
                             y |-> Val(results.pinch.position).y])} :
                      \E hovered \in {getKeyAtPosition(flippedPosition)} :
                          /\ show
                          /\ overlayPinchPosition' = flippedPosition
                          /\ mainHoveredKey' = hovered
                          /\ overlayHoveredKey' = hovered
                          /\ lastHover' = hovered
                          /\ UNCHANGED <<mainCurrentKey, overlayCurrentKey,
                                         rotationStartOffset,
                                         targetRotationOffset,
                                         rotationStartTime, currentKey, isMinor,
                                         baseFreqs, roundedVoices,
                                         saturatedVoices, keyCall>>
             ELSE /\ IF commits
                     THEN /\ mainCurrentKey' = Val(mainHoveredKey)
                          /\ setKey(Val(mainHoveredKey))
                          /\ setCurrentKey(Val(mainHoveredKey))
                          /\ hideWithDelay(HIDE_DELAY)
                          /\ UNCHANGED <<visible, fadeDirection, fadeStartTime>>
                     ELSE /\ IF wasPinching
                             THEN hide
                             ELSE UNCHANGED <<fadeDirection, fadeStartTime>>
                          /\ UNCHANGED <<mainCurrentKey, overlayCurrentKey,
                                         rotationStartOffset,
                                         targetRotationOffset,
                                         rotationStartTime, currentKey, isMinor,
                                         baseFreqs, roundedVoices,
                                         saturatedVoices, keyCall, visible,
                                         hideTimeout, timers>>
                  /\ overlayPinchPosition' = Null
                  /\ mainHoveredKey' = Null
                  /\ UNCHANGED <<overlayHoveredKey, lastHover>>
          /\ IF UpdatesEffects(isPinching)
             THEN /\ saturationMultiplier' = setSaturation(leftRotation)
                  /\ driftAmount' = setDrift(rightRotation)
                  /\ \E i \in {setIntensity(RotationAmount(leftRotation),
                                            audioIsInitialized)},
                        w \in {setWidth(RotationAmount(rightRotation),
                                        audioIsInitialized)} :
                        /\ lastValidIntensity' = i.lastValid
                        /\ pendingIntensity' = i.pending
                        /\ appliedIntensity' = i.applied
                        /\ lastValidWidth' = w.lastValid
                        /\ pendingWidth' = w.pending
                        /\ appliedWidth' = w.applied
                  /\ expected' =
                         [intensity |->
                              ExpectedAfter(expected.intensity,
                                            RotationAmount(leftRotation),
                                            pendingIntensity, audioIsInitialized),
                          width |->
                              ExpectedAfter(expected.width,
                                            RotationAmount(rightRotation),
                                            pendingWidth, audioIsInitialized)]
             ELSE UNCHANGED <<saturationMultiplier, driftAmount,
                              lastValidIntensity, pendingIntensity,
                              appliedIntensity, lastValidWidth, pendingWidth,
                              appliedWidth, expected>>
          /\ wasPinching' = isPinching
          /\ lastFrame' =
                 Some([results |-> results,
                       turn |-> (lastFrame = Null \/ ~Val(lastFrame).turn),
                       calls |->
                           (IF ~isPinching /\ commits
                            THEN <<<<"setKey", mainHoveredKey>>>> ELSE <<>>)
                           \o (IF UpdatesEffects(isPinching)
                               THEN << <<"setSaturation", Some(leftRotation)>>,
                                       <<"setDrift", Some(rightRotation)>>,
                                       <<"setIntensity",
                                         Some(RotationAmount(leftRotation))>>,
                                       <<"setWidth",
                                         Some(RotationAmount(rightRotation))>> >>
                               ELSE <<>>)])
    /\ UNCHANGED <<opacity, rotationOffset, lastFiring, hitTest>>
    /\ UNCHANGED detectorVars
    /\ UNCHANGED <<state, initPromise, roundedLFOs, saturatedLFOs, chain, initPc,
                   attempts, promises, listening, calls, replayed>>

\* render(): the fade and the rotation advance with the clock
Render(dt) ==
    /\ now + dt <= MaxMainNow
    /\ NoTimerOverdue(now + dt)
    /\ now' = now + dt
    /\ IF fadeStartTime # Null
       THEN \E progress \in
                {Min(100, ((now' - Val(fadeStartTime)) * 100) \div FADE_DURATION)} :
                /\ opacity' = IF fadeDirection > 0 THEN progress
                              ELSE 100 - progress
                /\ fadeStartTime' = IF progress >= 100 THEN Null
                                    ELSE fadeStartTime
                /\ visible' = IF progress >= 100 /\ fadeDirection < 0 THEN FALSE
                              ELSE visible
       ELSE UNCHANGED <<opacity, fadeStartTime, visible>>
    /\ IF rotationStartTime # Null
       THEN \E left \in
                {Max(0, (ROTATION_DURATION - (now' - Val(rotationStartTime)))
                            \div EaseStep)} :
                /\ rotationOffset' =
                       IF left = 0 THEN targetRotationOffset
                       ELSE rotationStartOffset
                            + ((targetRotationOffset - rotationStartOffset)
                               * (EaseSteps * EaseSteps * EaseSteps
                                  - left * left * left))
                              \div (EaseSteps * EaseSteps * EaseSteps)
                /\ rotationStartTime' = IF left = 0 THEN Null
                                        ELSE rotationStartTime
       ELSE UNCHANGED <<rotationOffset, rotationStartTime>>
    /\ UNCHANGED <<mainCurrentKey, mainHoveredKey, wasPinching,
                   saturationMultiplier, driftAmount, overlayCurrentKey,
                   overlayHoveredKey, targetRotationOffset, overlayPinchPosition,
                   fadeDirection, rotationStartOffset, hideTimeout, timers,
                   lastFrame, lastHover, lastFiring, hitTest>>
    /\ UNCHANGED detectorVars
    /\ UNCHANGED audioVars

\* the callback hideWithDelay handed to setTimeout runs
HideTimerFires ==
    \E t \in timers :
        /\ \A u \in timers : t.due <= u.due
        /\ now' = Max(now, t.due)
        /\ timers' = timers \ {t}
        /\ hide
        /\ hideTimeout' = Null
        /\ lastFiring' = Some([at |-> now', pinching |-> wasPinching])
        /\ UNCHANGED <<mainCurrentKey, mainHoveredKey, wasPinching,
                       saturationMultiplier, driftAmount, visible, opacity,
                       overlayCurrentKey, overlayHoveredKey, rotationOffset,
                       targetRotationOffset, overlayPinchPosition,
                       rotationStartTime, rotationStartOffset, lastFrame,
                       lastHover, hitTest>>
        /\ UNCHANGED detectorVars
        /\ UNCHANGED audioVars

(***************************************************************************)
(* Specifications                                                          *)
(***************************************************************************)
Init == HandDetectorInit /\ AudioEngineInit /\ MainInit

\* the hand detector fed with landmark frames
NextGesture ==
    \/ \E frame \in Frames, dt \in FrameDeltas : OnResults(frame, dt)
    \/ DetectorStarted
    \/ DetectorFailed

SpecGesture == Init /\ [][NextGesture]_vars

\* the audio engine driven by its callers and by the steps of its bring-up
SpecAudio == Init /\ [][NextAudio]_vars

\* what a call of show(), hide() or hideWithDelay() leaves alone besides
\* the fields it is about
OverlayCallFrame(dt) ==
    /\ now + dt <= MaxMainNow
    /\ NoTimerOverdue(now + dt)
    /\ now' = now + dt
    /\ UNCHANGED <<mainCurrentKey, mainHoveredKey, wasPinching,
                   saturationMultiplier, driftAmount, opacity,
                   overlayCurrentKey, overlayHoveredKey, rotationOffset,
                   targetRotationOffset, overlayPinchPosition,
                   rotationStartTime, rotationStartOffset, lastFrame,
                   lastHover, lastFiring, hitTest>>
    /\ UNCHANGED detectorVars
    /\ UNCHANGED audioVars

\* show() called on its own
Show(dt) ==
    /\ OverlayCallFrame(dt)
    /\ show

\* hide() called on its own
Hide(dt) ==
    /\ OverlayCallFrame(dt)
    /\ hide
    /\ UNCHANGED <<visible, hideTimeout, timers>>

\* hideWithDelay() called on its own, with the default delay
HideWithDelay(dt) ==
    /\ OverlayCallFrame(dt)
    /\ hideWithDelay(HIDE_DELAY)
    /\ UNCHANGED <<visible, fadeDirection, fadeStartTime>>

\* setCurrentKey(keyName) called on its own
SetCurrentKey(keyName, dt) ==
    /\ now + dt <= MaxMainNow
    /\ NoTimerOverdue(now + dt)
    /\ now' = now + dt
    /\ setCurrentKey(keyName)
    /\ UNCHANGED <<mainCurrentKey, mainHoveredKey, wasPinching,
                   saturationMultiplier, driftAmount, visible, opacity,
                   overlayHoveredKey, rotationOffset, overlayPinchPosition,
                   fadeStartTime, fadeDirection, hideTimeout, timers, lastFrame,
                   lastHover, lastFiring, hitTest>>
    /\ UNCHANGED detectorVars
    /\ UNCHANGED audioVars

\* getKeyAtPosition(normalizedPos) called on its own
GetKeyAtPosition(normalizedPos) ==
    /\ hitTest' = Some([position |-> normalizedPos,
                        key |-> getKeyAtPosition(normalizedPos)])
    /\ UNCHANGED <<mainCurrentKey, mainHoveredKey, wasPinching,
                   saturationMultiplier, driftAmount, visible, opacity,
                   overlayCurrentKey, overlayHoveredKey, rotationOffset,
                   targetRotationOffset, overlayPinchPosition, fadeStartTime,
                   fadeDirection, rotationStartTime, rotationStartOffset,
                   hideTimeout, timers, lastFrame, lastHover, lastFiring>>
    /\ UNCHANGED gestureVars
    /\ UNCHANGED audioVars

\* the Gesture Events of the model: rotations of 45 and -90 degrees, none
\* and NaN; a pinch over the outer ring, the inner ring, the dead zone at
\* the centre and outside of the wheel (unmirrored, as the detector reports)
MainRotations == {<<Num(45), Num(-90)>>, <<NaN, Num(0)>>}
MainPositions ==
    {[x |-> 36, y |-> 29], [x |-> 40, y |-> 35], [x |-> 50, y |-> 50],
     [x |-> 20, y |-> 5]}
MainEvents ==
    {[leftRotation |-> r[1], rightRotation |-> r[2],
      pinch |-> [active |-> FALSE, position |-> Null]] : r \in MainRotations}
    \cup
    {[leftRotation |-> r[1], rightRotation |-> r[2],
      pinch |-> [active |-> TRUE, position |-> Some(p)]] :
         r \in MainRotations, p \in MainPositions}

\* the time between two steps of the page, in milliseconds
MainDeltas == {250}

\* the callback of main.js fed with Gesture Events, the overlay rendered and
\* its hide timer firing
NextMain ==
    \/ \E results \in MainEvents, dt \in MainDeltas : OnHandResults(results, dt)
    \/ \E dt \in MainDeltas : Render(dt)
    \/ HideTimerFires

SpecMain == Init /\ [][NextMain]_vars

\* the time between two calls of the overlay's methods, in milliseconds
OverlayDeltas == {0, 250}

\* the overlay with its methods called in any order
NextOverlay ==
    \/ \E dt \in OverlayDeltas : Show(dt)
    \/ \E dt \in OverlayDeltas : Hide(dt)
    \/ \E dt \in OverlayDeltas : HideWithDelay(dt)
    \/ \E dt \in OverlayDeltas : Render(dt)
    \/ HideTimerFires

SpecOverlay == Init /\ [][NextOverlay]_vars

\* the keys of the wheel
WheelKeys == {MAJOR_KEYS[i] : i \in 1..12} \cup {MINOR_KEYS[i] : i \in 1..12}

\* the points straight up from the centre, in the inner and in the outer
\* ring, and two points next to them
TopPositions ==
    {Some([x |-> 50, y |-> 32]), Some([x |-> 50, y |-> 20]),
     Some([x |-> 51, y |-> 20]), Some([x |-> 49, y |-> 20])}

\* the time between two calls of the wheel's methods, in milliseconds
WheelDeltas == {300}

\* the wheel turned by key changes and hit-tested at its top
NextWheel ==
    \/ \E k \in WheelKeys, dt \in WheelDeltas : SetCurrentKey(k, dt)
    \/ \E dt \in WheelDeltas : Render(dt)
    \/ \E p \in TopPositions : GetKeyAtPosition(p)

SpecWheel == Init /\ [][NextWheel]_vars

\* the positions hit-tested in the model: a grid of 12 pixels over the
\* wheel and its surroundings, the points of the axes next to the three
\* radii, and points one degree or so off the axes
HitPositions ==
    {Some([x |-> 50 + 4 * i, y |-> 50 + 6 * j]) : i \in -7..7, j \in -7..7}
    \cup {Some([x |-> 50, y |-> 50 + j]) :
              j \in {-42, -41, -25, -24, -12, -11, 11, 12, 24, 25, 41, 42}}
    \cup {Some([x |-> 50 + i, y |-> 50]) :
              i \in {-28, -27, -17, -16, -8, -7, 7, 8, 16, 17, 27, 28}}
    \cup {Some([x |-> 49, y |-> 80]), Some([x |-> 51, y |-> 20]),
          Some([x |-> 49, y |-> 20]), Some([x |-> 70, y |-> 51])}

\* the keys the wheel is turned to, the time from a call to a key change
\* and the time from a call to a rendering
HitKeys == {<<"G">>, <<"F", "#">>, <<"D", "m">>}
HitKeyDeltas == {1000}
HitRenderDeltas == {250}

\* the wheel turned by key changes, at rest and under way, and hit-tested
\* all over
NextHit ==
    \/ \E k \in HitKeys, dt \in HitKeyDeltas : SetCurrentKey(k, dt)
    \/ \E dt \in HitRenderDeltas : Render(dt)
    \/ \E p \in HitPositions : GetKeyAtPosition(p)

SpecHit == Init /\ [][NextHit]_vars

\* the positions of the key selector's model: on the four axes and off
\* them in both rings, the centre and a corner
SelectorPositions ==
    {Some([x |-> 50, y |-> 50 + j]) : j \in {-40, -20, 0, 20, 40}}
    \cup {Some([x |-> 50 + i, y |-> 50]) : i \in {-26, -14, 14, 26}}
    \cup {Some([x |-> 49, y |-> 20]), Some([x |-> 70, y |-> 51]),
          Some([x |-> 38, y |-> 62]), Some([x |-> 5, y |-> 5])}

\* the keys the selector is turned to and the time between two calls of its
\* methods, in milliseconds
SelectorKeys == {<<"A", "m">>, <<"F", "#">>, <<"D", "m">>}
SelectorDeltas == {250}

\* the wheel turned by key changes, one coming before the other is
\* through, rendered and hit-tested
NextSelector ==
    \/ \E k \in SelectorKeys, dt \in SelectorDeltas : SetCurrentKey(k, dt)
    \/ \E dt \in SelectorDeltas : Render(dt)
    \/ \E p \in SelectorPositions : GetKeyAtPosition(p)

SpecSelector == Init /\ [][NextSelector]_vars

\* the frames of the starvation model: no hand, or one hand
StarveFrames == {<<>>} \cup {<<h>> : h \in Hands}

\* the detector on the verge of restarting the camera
InitStarve == StarvingInit /\ AudioEngineInit /\ MainInit

NextStarve ==
    \/ \E frame \in StarveFrames, dt \in FrameDeltas : OnResults(frame, dt)
    \/ RestartSucceeded
    \/ RestartFailed

SpecStarve == InitStarve /\ [][NextStarve]_vars

\* the height of a fingertip over its knuckle: above it, level with it,
\* below it (y grows downwards)
TipHeights == {-10, 0, 10}
\* how far the thumb tip lies to the left of the index tip
TipGaps == {0, 40, 50, 200}
\* where the wrist lies from the middle fingertip
WristOffsets == {P(dx, dy) : dx \in {-100, 0, 100}, dy \in {-100, 0, 100}}

\* a landmark set with the knuckles in a row, each fingertip at its height
\* over its knuckle (in the order of fingerTips), the thumb tip gap to the
\* left of the index tip and the wrist at wristOffset from the middle
\* fingertip
HandWith(heights, gap, wristOffset) ==
    0 :> P(500 + wristOffset.x, 600 + heights[3] + wristOffset.y) @@
    2 :> P(400, 600) @@ 4 :> P(450 - gap, 600 + heights[1]) @@
    5 :> P(450, 600) @@ 8 :> P(450, 600 + heights[2]) @@
    9 :> P(500, 600) @@ 12 :> P(500, 600 + heights[3]) @@
    13 :> P(550, 600) @@ 16 :> P(550, 600 + heights[4]) @@
    17 :> P(600, 600) @@ 20 :> P(600, 600 + heights[5])

\* the landmark sets the classifiers are applied to
LandmarkSets ==
    {HandWith(heights, gap, wristOffset) :
        heights \in [1..5 -> TipHeights], gap \in TipGaps,
        wristOffset \in WristOffsets}

\* a detector that is about to classify one hand of a frame
InitClassify ==
    /\ now = 0
    /\ isInitialized = TRUE
    /\ detectorInit = "started"
    /\ hand1Rotation = 0
    /\ hand2Rotation = 0
    /\ lastLeftRotation = 0
    /\ lastRightRotation = 0
    /\ noDetectionCount = 0
    /\ pinchActive = FALSE
    /\ pinchPosition = Null
    /\ pinchHand = Null
    /\ fistHoldStart = [left |-> Null, right |-> Null]
    /\ pinchHoldStart = Null
    /\ fistActive = [left |-> FALSE, right |-> FALSE]
    /\ pinchActiveConfirmed = FALSE
    /\ restartsInFlight = 0
    /\ event = Null
    /\ seen = Null
    /\ prevRotation = [left |-> 0, right |-> 0]
    /\ run = [left |-> Null, right |-> Null, pinch |-> Null, holders |-> {}]
    /\ ended = [left |-> Null, right |-> Null]
    /\ handLandmarks \in {Some(l) : l \in LandmarkSets}
    /\ classified = Null
    /\ AudioEngineInit
    /\ MainInit

\* the three classifier calls at the head of the loop over the hands
ClassifyHand ==
    /\ handLandmarks # Null
    /\ classified = Null
    /\ classified' =
           Some([rotation |-> calculateHandRotation(Val(handLandmarks)),
                 isFist |-> isFist(Val(handLandmarks)),
                 isPinch |-> isPinch(Val(handLandmarks))])
    /\ UNCHANGED <<now, isInitialized, detectorInit, hand1Rotation,
                   hand2Rotation, lastLeftRotation, lastRightRotation,
                   noDetectionCount, pinchActive, pinchPosition, pinchHand,
                   fistHoldStart, pinchHoldStart, fistActive,
                   pinchActiveConfirmed, restartsInFlight, event, seen,
                   prevRotation, run, ended, handLandmarks>>
    /\ UNCHANGED audioVars
    /\ UNCHANGED mainVars

NextClassify == ClassifyHand

SpecClassify == InitClassify /\ [][NextClassify]_vars

\* the Gesture Events of a pinch that comes and goes: no pinch, a pinch over
\* the key G of the outer ring, a pinch over the dead zone at the centre
ReleaseEvents ==
    {[leftRotation |-> Num(45), rightRotation |-> Num(-90),
      pinch |-> [active |-> FALSE, position |-> Null]]}
    \cup
    {[leftRotation |-> Num(45), rightRotation |-> Num(-90),
      pinch |-> [active |-> TRUE, position |-> Some(p)]] :
         p \in {[x |-> 36, y |-> 29], [x |-> 50, y |-> 50]}}

\* the time between two Gesture Events and between two render() calls, in
\* milliseconds
ReleaseFrameDeltas == {100}
ReleaseRenderDeltas == {100, 250}

\* the last Gesture Event comes early enough for a hide that it schedules
\* to fire, and for the fade-out to be rendered, before the clock of the
\* model ends; a later event without a pinch would reach neither show() nor
\* hide() nor hideWithDelay()
LastEventAt == MaxMainNow - HIDE_DELAY - 250

ReleaseFrame(results, dt) ==
    /\ now + dt <= LastEventAt
    /\ OnHandResults(results, dt)

NextRelease ==
    \/ \E results \in ReleaseEvents, dt \in ReleaseFrameDeltas :
           ReleaseFrame(results, dt)
    \/ \E dt \in ReleaseRenderDeltas : Render(dt)
    \/ HideTimerFires

\* render() is called again and again, and a timer set with setTimeout
\* fires
SpecRelease ==
    /\ Init
    /\ [][NextRelease]_vars
    /\ WF_vars(\E dt \in ReleaseRenderDeltas : Render(dt))
    /\ WF_vars(HideTimerFires)

\* where the model of the parameter replay lets _doInit() throw
ParamThrowPoints == {[at |-> "none", n |-> 0], [at |-> "effects", n |-> 0]}

\* the setters called with valid and invalid amounts around the bring-up
ParamIntensityInputs == {Num(30), Num(70), NaN}
ParamWidthInputs == {Num(70), Num(150), Infinity, Undefined}

NextParams ==
    \/ StartAudio
    \/ ToneStartReturns
    \/ \E throws \in BOOLEAN : ToneStartResolved(throws)
    \/ \E throw \in ParamThrowPoints : ReverbGenerated(throw)
    \/ \E w \in ParamWidthInputs : SetWidth(w)
    \/ \E i \in ParamIntensityInputs : SetIntensity(i)

SpecParams == Init /\ [][NextParams]_vars

\* key changes around the bring-up, which can fail at every step
NextKey ==
    \/ StartAudio
    \/ ToneStartReturns
    \/ ToneStartThrows
    \/ ToneStartRejected
    \/ \E throws \in BOOLEAN : ToneStartResolved(throws)
    \/ ReverbRejected
    \/ \E throw \in ThrowPoints : ReverbGenerated(throw)
    \/ \E keyName \in KeyInputs : SetKey(keyName)

SpecKey == Init /\ [][NextKey]_vars

\* every key name, before, during and after a bring-up that succeeds
NextKeyNames ==
    \/ StartAudio
    \/ ToneStartReturns
    \/ ToneStartResolved(FALSE)
    \/ ReverbGenerated([at |-> "none", n |-> 0])
    \/ \E keyName \in AllKeyNames : SetKey(keyName)

SpecKeyNames == Init /\ [][NextKeyNames]_vars

(***************************************************************************)
(* Properties of the gesture state machine                                 *)
(***************************************************************************)
Sides == {"left", "right"}
Published(side) == IF side = "left" THEN lastLeftRotation ELSE lastRightRotation
Emitted(side) ==
    IF side = "left" THEN Val(event).leftRotation ELSE Val(event).rightRotation
\* a frame has been processed, and it showed a fist of that hand
FistInFrame(side) == seen # Null /\ Val(seen)[side] # Null
PinchInFrame == seen # Null /\ Len(Val(seen).pinches) > 0
Elapsed(gesture) == now - Val(run[gesture]).start

\* C1: while a fist is seen in every frame of a run, the published and the
\* emitted rotation of that hand stay what they were in every frame less
\* than HOLD_DURATION_MS after the run's first frame, and from the first
\* frame at or after it they are the angle classified in that same frame.
C1_HoldToActivate ==
    \A side \in Sides :
        FistInFrame(side) =>
            IF Elapsed(side) < HOLD_DURATION_MS
            THEN /\ Published(side) = prevRotation[side]
                 /\ Emitted(side) = prevRotation[side]
            ELSE /\ Published(side) = Val(Val(seen)[side])
                 /\ Emitted(side) = Val(Val(seen)[side])

\* a fist held for the hold duration publishes the angle of this frame,
\* which is neither the angle at the run's onset nor the one published before
C1_Witness ==
    \E side \in Sides :
        /\ FistInFrame(side)
        /\ Elapsed(side) = HOLD_DURATION_MS
        /\ Val(run[side]).angle # Val(Val(seen)[side])
        /\ Emitted(side) = Val(Val(seen)[side])
        /\ Emitted(side) # prevRotation[side]

\* C2: a frame without the hand's fist clears that hand's hold timer and
\* active flag; when the fist is back the timer counts from the frame of
\* its re-appearance, so the hand is active only HOLD_DURATION_MS after it,
\* however long the fist was held before the gap.
C2_InstantCancel ==
    \A side \in Sides :
        seen # Null =>
            IF Val(seen)[side] = Null
            THEN fistHoldStart[side] = Null /\ ~fistActive[side]
            ELSE /\ fistHoldStart[side] = Some(Val(run[side]).start)
                 /\ fistActive[side] <=> Elapsed(side) >= HOLD_DURATION_MS

\* a fist that re-appeared after a one-frame gap, seen again later: its
\* first onset is a hold duration ago, its re-appearance is not, and its
\* angle is not published
C2_Witness ==
    \E side \in Sides :
        /\ FistInFrame(side)
        /\ Val(run[side]).before # Null
        /\ now - Val(Val(run[side]).before) >= HOLD_DURATION_MS
        /\ Val(run[side]).start < now
        /\ Elapsed(side) < HOLD_DURATION_MS
        /\ ~fistActive[side]
        /\ Published(side) # Val(Val(seen)[side])

\* C3: an event's pinch.active is true only in a frame that shows a pinch
\* at least HOLD_DURATION_MS after the first frame of the pinch's
\* contiguous run; in every other frame pinch.active is false and
\* pinch.position and pinch.hand are null.
C3_PinchGating ==
    event # Null =>
        LET pinch == Val(event).pinch
            held == PinchInFrame /\ Elapsed("pinch") >= HOLD_DURATION_MS
        IN  /\ pinch.active => held
            /\ ~held => /\ ~pinch.active
                        /\ pinch.position = Null
                        /\ pinch.hand = Null

\* a pinch is seen 449 ms after its onset and the event reports none
C3_Witness ==
    /\ PinchInFrame
    /\ Elapsed("pinch") = HOLD_DURATION_MS - 1
    /\ ~Val(event).pinch.active
    /\ Val(event).pinch.position = Null

\* C4: in a frame whose event has pinch.active, neither rotation of the
\* event differs from the previous event's.
C4_PinchFreezesRotation ==
    (event # Null /\ Val(event).pinch.active) =>
        \A side \in Sides : Emitted(side) = prevRotation[side]

\* C5: an emitted rotation differs from the previous event's only in a
\* frame that shows that hand's fist with its debouncer active.
C5_HeldRotation ==
    \A side \in Sides :
        (event # Null /\ Emitted(side) # prevRotation[side]) =>
            FistInFrame(side) /\ fistActive[side]

\* only the right hand is in the frame, its active fist turns, and the
\* left rotation keeps the value an earlier left fist gave it
C5_Witness ==
    /\ event # Null
    /\ Val(event).handsDetected = 1
    /\ FistInFrame("right")
    /\ Emitted("right") # prevRotation.right
    /\ ~FistInFrame("left")
    /\ Emitted("left") = prevRotation.left
    /\ Emitted("left") # 0

\* C6: in every event pinch.position is non-null iff pinch.active, and
\* pinch.hand is non-null iff pinch.active.
C6_PositionIffActive ==
    event # Null =>
        LET pinch == Val(event).pinch
        IN  /\ pinch.position # Null <=> pinch.active
            /\ pinch.hand # Null <=> pinch.active

\* a confirmed pinch is reported with its position and hand
C6_Witness ==
    /\ event # Null
    /\ Val(event).pinch.active
    /\ Val(event).pinch.position # Null
    /\ Val(event).pinch.hand # Null

\* C7: when two hands pinch in a frame, a confirmed pinch is reported with
\* the position and hand of the first of them in the detector's order.
C7_FirstPinchWins ==
    (event # Null /\ Val(event).pinch.active /\ Len(Val(seen).pinches) = 2) =>
        /\ Val(event).pinch.position = Some(Val(seen).pinches[1].position)
        /\ Val(event).pinch.hand = Some(Val(seen).pinches[1].hand)

(***************************************************************************)
(* Properties of the audio engine's bring-up                               *)
(***************************************************************************)
CallIndices == 1..Len(calls)
Settlement(j) == promises[calls[j].attempt]

\* the fields of the engine itself
engine ==
    <<state, initPromise, roundedVoices, saturatedVoices, roundedLFOs,
      saturatedLFOs, chain, pendingIntensity, pendingWidth, lastValidIntensity,
      lastValidWidth, baseFreqs, appliedIntensity, appliedWidth, initPc,
      attempts, promises>>

\* an init() call that found the engine INITIALIZING returned the promise of
\* an attempt that an earlier call had started
SecondCallShares ==
    \A j \in CallIndices :
        calls[j].during = INITIALIZING
            => \E k \in 1..(j - 1) : calls[k].attempt = calls[j].attempt

\* C8: an init() call made while an attempt is INITIALIZING starts no second
\* _doInit() and settles with that attempt, and once the shared attempt has
\* fulfilled each voice bank holds exactly 4 voices.
C8_DoubleInitSafety ==
    /\ SecondCallShares
    /\ \A j \in CallIndices :
           calls[j].during = INITIALIZING /\ Settlement(j) = "fulfilled"
               => Len(roundedVoices) = 4 /\ Len(saturatedVoices) = 4

\* C9: the state only moves UNINITIALIZED -> INITIALIZING, INITIALIZING ->
\* INITIALIZED, INITIALIZING -> ERROR (the attempt's promise rejecting) and
\* ERROR -> INITIALIZING (by an init() call); once INITIALIZED it never
\* changes, and an init() call then changes no field of the engine.
C9_StateMachine ==
    [][/\ state' # state =>
              <<state, state'>> \in {<<UNINITIALIZED, INITIALIZING>>,
                                     <<INITIALIZING, INITIALIZED>>,
                                     <<INITIALIZING, ERROR>>,
                                     <<ERROR, INITIALIZING>>}
       /\ state # ERROR /\ state' = ERROR => promises'[attempts] = "rejected"
       /\ state = ERROR /\ state' # ERROR => calls' # calls
       /\ state = INITIALIZED => state' = INITIALIZED
       /\ state = INITIALIZED /\ calls' # calls => UNCHANGED engine]_vars

\* an engine initialized at its second attempt, with init() called again
\* after that
C9_Witness ==
    /\ state = INITIALIZED
    /\ attempts >= 2
    /\ promises[1] = "rejected"
    /\ \E j \in CallIndices : calls[j].during = INITIALIZED

\* C10: when an attempt has failed the state is ERROR with initPromise
\* cleared, and every init() call that returned the attempt's promise is
\* rejected.
C10_FailureRetryable ==
    state = ERROR =>
        /\ initPromise = Null
        /\ \A j \in CallIndices :
               calls[j].attempt = attempts => Settlement(j) = "rejected"

(***************************************************************************)
(* Properties of the parameter setters                                     *)
(***************************************************************************)
Parameters == {"intensity", "width"}
LastValid(p) == IF p = "intensity" THEN lastValidIntensity ELSE lastValidWidth
Pending(p) == IF p = "intensity" THEN pendingIntensity ELSE pendingWidth
Applied(p) == IF p = "intensity" THEN appliedIntensity ELSE appliedWidth

\* the amount a mapping works with: the amount limited to 0..1
Limited(amount) == IF amount < 0 THEN 0 ELSE IF amount > 100 THEN 100 ELSE amount

\* the last valid amount a setter of p was called with, 0 if there was none
PrecedingValid(p) == IF expected[p].valid = Null THEN 0 ELSE Val(expected[p].valid)

\* C11: when initialization finishes, the replay applies one mapping per
\* parameter that was set before, with the amount of the last call (none for
\* a parameter never set); nothing is replayed before that, and once the
\* engine is INITIALIZED nothing stays queued and no replay happens again.
C11_LatestWins ==
    [][/\ state # INITIALIZED /\ state' = INITIALIZED =>
              \A p \in Parameters :
                  replayed'[p] = IF expected[p].last = Null THEN <<>>
                                 ELSE <<Limited(PrecedingValid(p))>>
       /\ state' # INITIALIZED => replayed' = [intensity |-> <<>>, width |-> <<>>]
       /\ state = INITIALIZED =>
              /\ replayed' = replayed
              /\ pendingIntensity' = Null /\ pendingWidth' = Null]_vars

\* intensity 0.3 was queued, then replaced by 0.7, and the finished
\* initialization replayed 0.7 alone
C11_Witness ==
    /\ state = INITIALIZED
    /\ expected.intensity.superseded = Some(30)
    /\ replayed.intensity = <<70>>
    /\ appliedIntensity = Some(70)

\* C12: in every engine state the last valid value of a parameter, its
\* queued value and its applied mapping are those of the last valid amount a
\* setter was called with (0 if there was none), whatever invalid amounts
\* followed it.
C12_InvalidInputResilience ==
    \A p \in Parameters :
        /\ LastValid(p) = PrecedingValid(p)
        /\ Pending(p) # Null => Val(Pending(p)) = PrecedingValid(p)
        /\ state # INITIALIZED /\ expected[p].last # Null => Pending(p) # Null
        /\ state = INITIALIZED /\ expected[p].last # Null =>
               Applied(p) = Some(Limited(PrecedingValid(p)))

\* after width 0.7, an infinite width queued before initialization and an
\* undefined one after it: the width mapping still works with 0.7
C12_Witness ==
    /\ state = INITIALIZED
    /\ expected.width.last = Undefined
    /\ expected.width.superseded = Some(70)
    /\ expected.width.valid = Some(70)
    /\ appliedWidth = Some(70)

(***************************************************************************)
(* Properties of the voices and of the key                                 *)
(***************************************************************************)
\* the key names with a root of the frequency table
Recognized(keyName) ==
    keyName \in RootNames \/ \E root \in RootNames : keyName = Append(root, "m")

\* a step of setKey, and the name it was called with
SetKeyCalled == keyCall' # keyCall
CalledName == Val(keyCall'.name)

\* setKey leaves every bank with the oscillators it had
SetKeyKeepsVoices ==
    [][SetKeyCalled =>
           /\ Len(roundedVoices') = Len(roundedVoices)
           /\ Len(saturatedVoices') = Len(saturatedVoices)
           /\ \A i \in 1..Len(roundedVoices) :
                  roundedVoices'[i].madeBy = roundedVoices[i].madeBy
           /\ \A i \in 1..Len(saturatedVoices) :
                  saturatedVoices'[i].madeBy = saturatedVoices[i].madeBy]_vars

\* C13: each voice bank holds at most 4 voices, and exactly 4 whenever the
\* engine is INITIALIZED, whatever attempts failed before.
C13_VoicesCreatedOnce ==
    /\ Len(roundedVoices) <= 4
    /\ Len(saturatedVoices) <= 4
    /\ state = INITIALIZED => Len(roundedVoices) = 4 /\ Len(saturatedVoices) = 4

\* the chords of G and Am: 196.00 * [1, 1.5, 2, 2.52], 220.00 * [1, 1.5, 2, 2.4]
ExpectedChord(keyName) ==
    IF keyName = KeyAm
    THEN <<Num(2200000), Num(3300000), Num(4400000), Num(5280000)>>
    ELSE <<Num(1960000), Num(2940000), Num(3920000), Num(4939200)>>

\* an oscillator that exists gets another frequency
VoiceRetuned ==
    \/ \E i \in 1..Len(roundedVoices) :
           roundedVoices'[i].frequency # roundedVoices[i].frequency
    \/ \E i \in 1..Len(saturatedVoices) :
           saturatedVoices'[i].frequency # saturatedVoices[i].frequency

\* C14: a setKey call with a recognized key made while the engine is not
\* INITIALIZED gives currentKey, isMinor and baseFreqs the values of that
\* call and touches no oscillator; an oscillator's frequency changes only in
\* a setKey call made while the engine is INITIALIZED.
C14_SetKeyBeforeInit ==
    [][/\ SetKeyCalled /\ Recognized(CalledName) /\ state # INITIALIZED =>
              /\ currentKey' = CalledName
              /\ isMinor' = (CalledName = KeyAm)
              /\ baseFreqs' = ExpectedChord(CalledName)
              /\ UNCHANGED <<roundedVoices, saturatedVoices>>
       /\ VoiceRetuned => SetKeyCalled /\ state = INITIALIZED]_vars

\* after a failed attempt that left oscillators behind, setKey('Am') has
\* set the key and the oscillators still sound the C major chord
C14_Witness ==
    /\ state = ERROR
    /\ keyCall.name = Some(KeyAm)
    /\ currentKey = KeyAm
    /\ baseFreqs = ExpectedChord(KeyAm)
    /\ Len(roundedVoices) = 4
    /\ \A i \in 1..4 : roundedVoices[i].frequency = CMajorFreqs[i]

\* C15: a setKey call with a name whose root is not a key of the frequency
\* table leaves currentKey, isMinor, baseFreqs and every oscillator as they
\* were, in every engine state.
C15_UnknownKeyRejected ==
    [][SetKeyCalled /\ ~Recognized(CalledName) =>
           UNCHANGED <<currentKey, isMinor, baseFreqs, roundedVoices,
                       saturatedVoices>>]_vars

\* the same for the unknown names that no object inherits
UnknownOwnKeyRejected ==
    [][SetKeyCalled /\ ~Recognized(CalledName) /\ CalledName \notin InheritedNames =>
           UNCHANGED <<currentKey, isMinor, baseFreqs, roundedVoices,
                       saturatedVoices>>]_vars

\* the root of a recognized key name, in hundredths of a hertz
RootOf(keyName) ==
    IF keyName \in RootNames THEN ROOT_FREQUENCIES[keyName]
    ELSE ROOT_FREQUENCIES[SubSeq(keyName, 1, Len(keyName) - 1)]

\* C16: after setKey(k) with a recognized name k, currentKey is k, isMinor
\* tells whether k ends in 'm', and baseFreqs is the root frequency of k
\* times [1, 1.5, 2, 2.52] or, for a minor key, [1, 1.5, 2, 2.4]; for 'Am'
\* that is 220.00, 330.00, 440.00, 528.00.
C16_KeyRoundTrip ==
    /\ \A k \in AllKeyNames :
           keyCall.name = Some(k) /\ Recognized(k) =>
               /\ currentKey = k
               /\ isMinor = (k[Len(k)] = "m")
               /\ baseFreqs =
                      [i \in 1..4 |->
                          Num(RootOf(k) * (IF k[Len(k)] = "m" THEN <<100, 150, 200, 240>>
                                           ELSE <<100, 150, 200, 252>>)[i])]
    /\ keyCall.name = Some(KeyAm) => baseFreqs = ExpectedChord(KeyAm)

\* setKey('Am') on the initialized engine
C16_Witness ==
    /\ state = INITIALIZED
    /\ keyCall.name = Some(KeyAm)
    /\ currentKey = KeyAm
    /\ isMinor
    /\ baseFreqs[4] = Num(5280000)

(***************************************************************************)
(* Key selection: the callback of main.js and the overlay                  *)
(***************************************************************************)
\* this step is an onHandResults call
FrameStep == lastFrame' # lastFrame

\* the event of the last onHandResults call had an active pinch
FrameActive(frame) == frame # Null /\ Val(frame).results.pinch.active

\* the calls of the frame to the function of that name
CallsTo(frame, name) == SelectSeq(Val(frame).calls, LAMBDA c : c[1] = name)

\* C17: the current key changes, and audioEngine.setKey is called, only in
\* a frame whose event has no active pinch while the previous event had
\* one, and only with the key the last active frame hovered, which is a key
\* and differs from the current key; a frame with an active pinch never
\* changes the current key and never calls setKey, and a release over the
\* dead zone or outside the wheel commits nothing.
C17_KeyCommitPolicy ==
    [][/\ (SetKeyCalled \/ mainCurrentKey' # mainCurrentKey \/ currentKey' # currentKey) =>
              /\ FrameStep
              /\ FrameActive(lastFrame)
              /\ ~FrameActive(lastFrame')
              /\ lastHover # Null
              /\ lastHover # Some(mainCurrentKey)
              /\ mainCurrentKey' = Val(lastHover)
              /\ SetKeyCalled
              /\ keyCall'.name = lastHover
       /\ FrameStep /\ FrameActive(lastFrame') =>
              /\ mainCurrentKey' = mainCurrentKey
              /\ ~SetKeyCalled
              /\ currentKey' = currentKey
       /\ FrameStep /\ ~FrameActive(lastFrame') /\ lastHover = Null =>
              /\ mainCurrentKey' = mainCurrentKey
              /\ ~SetKeyCalled
      ]_vars

\* a pinch over G was released while the key was C: the key is G, in the
\* page and in the engine
C17_Witness ==
    /\ ~FrameActive(lastFrame)
    /\ lastFrame # Null
    /\ CallsTo(lastFrame, "setKey") = << <<"setKey", Some(KeyG)>> >>
    /\ lastHover = Some(KeyG)
    /\ mainCurrentKey = KeyG
    /\ currentKey = KeyG
    /\ overlayCurrentKey = KeyG

\* show() finds the overlay shown and not fading out, and returns at once
ShowReturnsEarly == visible /\ fadeDirection >= 0

\* in a frame with an active pinch whose show() call gets past its first
\* line, no hide stays scheduled
ShowCancelsWhenNotShown ==
    [][FrameStep /\ FrameActive(lastFrame') /\ ~ShowReturnsEarly =>
           timers' = {} /\ hideTimeout' = Null]_vars

\* C18: a hide scheduled by hideWithDelay is cancelled by the show() of
\* the next frame with an active pinch, so that no hide is scheduled while
\* a pinch is in progress and the timer never fires hide() during one.
C18_HideTimerCancelled ==
    /\ wasPinching => timers = {} /\ hideTimeout = Null
    /\ lastFiring # Null => ~Val(lastFiring).pinching

\* the hide timer never fires during a pinch to start the fade-out
HideNeverFiresWhilePinching ==
    lastFiring # Null => ~(Val(lastFiring).pinching /\ wasPinching /\ fadeDirection = -1)

\* the calls of the frame to the renderer's and the engine's setters, in
\* call order
EffectCalls(frame) == SelectSeq(Val(frame).calls, LAMBDA c : c[1] # "setKey")

\* the degrees of a rotation of the event as the callback uses them: the
\* value itself, 0 for a value that is no finite number
Degrees(rotation) ==
    IF rotation[1] = "number" /\ rotation[2] = "finite" THEN rotation[3] ELSE 0

\* C19: a frame whose event has an active pinch calls none of
\* setSaturation, setDrift, setIntensity and setWidth and leaves the
\* renderer's and the engine's amounts as they were; a frame whose event has
\* no active pinch calls all four with the rotations of the event:
\* saturation |left| / 45, drift 2 + |right| / 3.6, intensity |left| / 90
\* and width |right| / 90.
C19_EffectsPauseWhilePinching ==
    [][FrameStep =>
           LET r == Val(lastFrame').results
               left == Degrees(r.leftRotation)
               right == Degrees(r.rightRotation)
               absLeft == IF left < 0 THEN -left ELSE left
               absRight == IF right < 0 THEN -right ELSE right
           IN  IF r.pinch.active
               THEN /\ EffectCalls(lastFrame') = <<>>
                    /\ UNCHANGED <<saturationMultiplier, driftAmount,
                                   lastValidIntensity, lastValidWidth,
                                   pendingIntensity, pendingWidth,
                                   appliedIntensity, appliedWidth>>
               ELSE /\ EffectCalls(lastFrame') =
                           << <<"setSaturation", Some(Num(left))>>,
                              <<"setDrift", Some(Num(right))>>,
                              <<"setIntensity", Some(Num((absLeft * 100) \div 90))>>,
                              <<"setWidth", Some(Num((absRight * 100) \div 90))>> >>
                    /\ saturationMultiplier' = (absLeft * 100) \div 45
                    /\ driftAmount' = 200 + (absRight * 1000) \div 36
                    /\ lastValidIntensity' = (absLeft * 100) \div 90
                    /\ lastValidWidth' = (absRight * 100) \div 90
                    /\ pendingIntensity' = Some((absLeft * 100) \div 90)
                    /\ pendingWidth' = Some((absRight * 100) \div 90)
      ]_vars

\* a frame without a pinch set the effects from rotations of 45 and -90
\* degrees, and the last frame, with an active pinch and other rotations,
\* left them there
C19_Witness ==
    /\ FrameActive(lastFrame)
    /\ Val(lastFrame).results.leftRotation = NaN
    /\ Val(lastFrame).results.rightRotation = Num(0)
    /\ EffectCalls(lastFrame) = <<>>
    /\ saturationMultiplier = 100
    /\ driftAmount = 2700
    /\ lastValidIntensity = 50
    /\ lastValidWidth = 100

\* C20: whatever the order of the show, hide and hideWithDelay calls and
\* of the timer firings, the overlay has at most one hide timer
\* outstanding, hideTimeout holds the handle of that timer and is null
\* whenever none is outstanding, and a hideWithDelay call leaves exactly
\* the timer it has just scheduled for HIDE_DELAY later, the one pending
\* before it cancelled.
C20_OneHideTimer ==
    /\ [](/\ Cardinality(timers) <= 1
          /\ (hideTimeout = Null) = (timers = {})
          /\ \A t \in timers : hideTimeout = Some(t.id))
    /\ [][hideTimeout' # hideTimeout /\ hideTimeout' # Null =>
              timers' = {[id |-> Val(hideTimeout'), due |-> now' + 1500]}
         ]_vars

\* hideWithDelay was called while the hide of an earlier call was still
\* scheduled: its timer, the second handle, is the only one outstanding
C20_Witness ==
    /\ hideTimeout = Some(2)
    /\ timers = {[id |-> 2, due |-> now + 1500]}

(***************************************************************************)
(* Hit-testing of the wheel                                                *)
(***************************************************************************)
\* this step is a getKeyAtPosition call made on its own
HitTested == hitTest' # hitTest

\* the point straight up from the centre inside the ring of the key
TopOf(keyName) ==
    IF \E i \in 1..12 : MINOR_KEYS[i] = keyName
    THEN Some([x |-> 50, y |-> 32])
    ELSE Some([x |-> 50, y |-> 20])

\* the keys whose rest offset leaves the quotient of the doubles on the
\* whole number for the point straight up
TopKeysExact ==
    {k \in WheelKeys : BoundarySlip.up[getKeyIndex(k) + 1] = 0}

\* with the wheel at rest on one of those keys, the point straight up in
\* the key's ring resolves to the key
TopKeyWhereQuotientExact ==
    [][/\ HitTested
       /\ rotationStartTime = Null
       /\ overlayCurrentKey \in TopKeysExact
       /\ Val(hitTest').position = TopOf(overlayCurrentKey)
       => Val(hitTest').key = Some(overlayCurrentKey)]_vars

\* C24: once setCurrentKey(k) was called and the rotation has completed,
\* whatever key changes preceded it, getKeyAtPosition for the point
\* straight up from the centre inside k's ring returns k.
C24_CurrentKeyAtTop ==
    [][/\ HitTested
       /\ rotationStartTime = Null
       /\ Val(hitTest').position = TopOf(overlayCurrentKey)
       => Val(hitTest').key = Some(overlayCurrentKey)]_vars

\* a normalized position in pixels to the right of and below the centre
\* of the canvas, and the square of its distance from the centre
PixelsRight(position) == (Val(position).x * innerWidth) \div 100 - centerX
PixelsDown(position) == (Val(position).y * innerHeight) \div 100 - centerY
Distance2(position) ==
    PixelsRight(position) * PixelsRight(position)
    + PixelsDown(position) * PixelsDown(position)

\* the position is at less than the fraction (in hundredths) of the
\* smaller canvas dimension from the centre
Closer(position, fraction) ==
    100 * 100 * Distance2(position) < fraction * fraction * minDim * minDim

\* C21: getKeyAtPosition returns null for the position exactly at the
\* centre of the menu and for every position closer to the centre than
\* 0.12 of the smaller canvas dimension, whatever the rotation offset.
C21_DeadZone ==
    [][HitTested /\ Closer(Val(hitTest').position, 12) =>
           Val(hitTest').key = Null]_vars

\* the centre was hit-tested with the wheel under way between two keys,
\* and resolved to null
C21_Witness ==
    /\ hitTest = Some([position |-> Some([x |-> 50, y |-> 50]), key |-> Null])
    /\ rotationStartTime # Null
    /\ rotationOffset \notin {RestOffset(i) : i \in 0..11}
    /\ getKeyAtPosition(Val(hitTest).position) = Null

\* the keys of the inner and of the outer ring
MinorKeys == {MINOR_KEYS[i] : i \in 1..12}
MajorKeys == {MAJOR_KEYS[i] : i \in 1..12}

Third(s, c) ==
    IF 3 * s * s < c * c THEN 0 ELSE IF s * s < 3 * c * c THEN 1 ELSE 2
Sector(right, up) ==
    IF right >= 0 /\ up > 0 THEN Third(right, up)
    ELSE IF right > 0 /\ up <= 0 THEN 3 + Third(-up, right)
    ELSE IF right <= 0 /\ up < 0 THEN 6 + Third(-right, -up)
    ELSE 9 + Third(up, -right)

\* C23: with rotation offset 0, a position in a ring at the clockwise
\* angle a from straight up resolves to the key at index floor(a / 30
\* degrees) of the ring's table; straight up in the outer ring is 'C', and
\* a point of the outer ring just past 180 degrees is 'F#'.
C23_SegmentMapping ==
    [][HitTested /\ rotationOffset = 0 =>
           LET p == Val(hitTest').position
               key == Val(hitTest').key
               index == Sector(PixelsRight(p), -PixelsDown(p))
           IN  /\ ~Closer(p, 12) /\ Closer(p, 25) =>
                      key = Some(MINOR_KEYS[index + 1])
               /\ ~Closer(p, 25) /\ Closer(p, 42) =>
                      key = Some(MAJOR_KEYS[index + 1])
               /\ p = Some([x |-> 50, y |-> 20]) => key = Some(<<"C">>)
               /\ p = Some([x |-> 49, y |-> 80]) => key = Some(<<"F", "#">>)]_vars

\* the point 3 pixels left of and 60 below the centre, just past 180
\* degrees in the outer ring, was hit-tested on the wheel as constructed
\* and resolved to 'F#'
C23_Witness ==
    /\ hitTest = Some([position |-> Some([x |-> 49, y |-> 80]),
                       key |-> Some(<<"F", "#">>)])
    /\ Sector(PixelsRight(Val(hitTest).position),
              -PixelsDown(Val(hitTest).position)) = 6
    /\ rotationOffset = 0
    /\ overlayCurrentKey = KeyC

(***************************************************************************)
(* The detector: starvation, the event stream, the classifier              *)
(***************************************************************************)
\* this step is a frame that onResults processes
FrameProcessed == now' # now /\ isInitialized

\* this step calls restartCamera()
RestartSignalled == restartsInFlight' > restartsInFlight

C26_OneEventPerFrame ==
    [][/\ FrameProcessed =>
              event' = Some([handsDetected |-> Val(seen').hands,
                             leftRotation |-> hand1Rotation',
                             rightRotation |-> hand2Rotation',
                             pinch |-> [active |-> pinchActive',
                                        position |-> pinchPosition',
                                        hand |-> pinchHand']])
       /\ ~FrameProcessed => event' = event
      ]_vars

\* a frame with two hands was processed with a pinch confirmed and a
\* rotation changing in it, and the event at the callback is the one of
\* that frame
C26_Witness ==
    /\ event # Null
    /\ Val(event).handsDetected = 2
    /\ Val(seen).hands = 2
    /\ Val(event).pinch.active
    /\ prevRotation # [left |-> hand1Rotation, right |-> hand2Rotation]

\* the squared distance of the thumb tip from the index tip
TipDistance2(l) ==
    (l[4].x - l[8].x) * (l[4].x - l[8].x) + (l[4].y - l[8].y) * (l[4].y - l[8].y)

\* the number of fingertips below their knuckles
Folded(l) == Cardinality({i \in 1..5 : l[fingerTips[i]].y > l[fingerMCPs[i]].y})

\* C27: a landmark set that isFist accepts is rejected by isPinch, whatever
\* the distance of the thumb tip from the index tip, so that no hand is
\* classified as a fist and as a pinch at once
C27_PinchExcludesFist ==
    classified # Null =>
        /\ Val(classified).isFist = (Folded(Val(handLandmarks)) >= 4)
        /\ Val(classified).isFist => ~Val(classified).isPinch

\* a hand with four fingertips below their knuckles and the thumb tip 40
\* from the index tip was classified: a fist, and no pinch
C27_Witness ==
    /\ classified # Null
    /\ Folded(Val(handLandmarks)) = 4
    /\ TipDistance2(Val(handLandmarks)) < PINCH_THRESHOLD * PINCH_THRESHOLD
    /\ TipDistance2(Val(handLandmarks)) > 0
    /\ Val(classified).isFist
    /\ ~Val(classified).isPinch

\* C28: calculateHandRotation returns a value from -90 to 90 for every
\* landmark set, the middle fingertip straight below the wrist and the
\* angles that wrap around after the shift by 90 degrees included
C28_RotationClamp ==
    classified # Null =>
        /\ Val(classified).rotation >= -90
        /\ Val(classified).rotation <= 90

\* the middle fingertip lies below and to the left of the wrist: the shifted
\* angle of 225 degrees wraps to -135 and is clamped to -90
C28_Witness ==
    /\ classified # Null
    /\ Val(handLandmarks)[12].x < Val(handLandmarks)[0].x
    /\ Val(handLandmarks)[12].y > Val(handLandmarks)[0].y
    /\ calculateHandRotation_Unclamped(Val(handLandmarks)) = -135
    /\ Val(classified).rotation = -90

\* a rotation of an event that validateRotation lets through
IsValidRotation(rotation) == rotation[1] = "number" /\ rotation[2] = "finite"

\* the rotation in force after an event: the event's own if it is valid, the
\* one of the event before it otherwise
KnownGood(rotation, before) ==
    IF IsValidRotation(rotation) THEN Abs(rotation[3]) ELSE Abs(before[3])

\* C29: a frame without a pinch whose event carries an invalid rotation,
\* coming after a frame without a pinch whose rotations were both valid,
\* applies the saturation, drift, intensity and width of the last valid
\* rotations (saturation |left| / 45, drift 2 + |right| / 3.6, intensity
\* |left| / 90, width |right| / 90), not those of a rotation of 0.
C29_SensorNoiseFallback ==
    [][/\ FrameStep
       /\ lastFrame # Null
       /\ ~FrameActive(lastFrame)
       /\ ~FrameActive(lastFrame')
       /\ IsValidRotation(Val(lastFrame).results.leftRotation)
       /\ IsValidRotation(Val(lastFrame).results.rightRotation)
       /\ \/ ~IsValidRotation(Val(lastFrame').results.leftRotation)
          \/ ~IsValidRotation(Val(lastFrame').results.rightRotation)
       => LET left == KnownGood(Val(lastFrame').results.leftRotation,
                                Val(lastFrame).results.leftRotation)
              right == KnownGood(Val(lastFrame').results.rightRotation,
                                 Val(lastFrame).results.rightRotation)
          IN  /\ saturationMultiplier' = (left * 100) \div 45
              /\ driftAmount' = baseDrift + (right * 1000) \div 36
              /\ lastValidIntensity' = (left * 100) \div 90
              /\ lastValidWidth' = (right * 100) \div 90
      ]_vars

InRing(p) ==
    /\ p # Null
    /\ Ring(Distance2(p)) \in {"minor", "major"}

\* C31: with the wheel at rest after a completed rotation, the key that
\* getKeyAtPosition returns for a position inside a ring is the key of the
\* segment that drawRing draws at that position.
C31_HitTestAgreesWithDrawing ==
    [][/\ HitTested
       /\ rotationStartTime = Null
       /\ rotationOffset = targetRotationOffset
       /\ InRing(Val(hitTest').position)
       => Val(hitTest').key = DrawnKeyAt(Val(hitTest').position, rotationOffset)
      ]_vars

\* every oscillator of the bank is one of the four voices of the chord and
\* is tuned to its note
TracksKey(voices) ==
    \A i \in 1..Len(voices) :
        /\ i \in DOMAIN baseFreqs
        /\ voices[i].frequency = baseFreqs[i]

\* C32: whenever the engine is INITIALIZED, voice i of the rounded and of
\* the saturated bank is tuned to baseFreqs[i], the chord of currentKey,
\* however the setKey calls fall between the steps of the bring-up.
C32_OscillatorsTrackKey ==
    state = INITIALIZED =>
        /\ TracksKey(roundedVoices)
        /\ TracksKey(saturatedVoices)

\* the 24 key names of the wheel
OverlayKeys == {MAJOR_KEYS[i] : i \in 1..12} \cup {MINOR_KEYS[i] : i \in 1..12}

\* setKey finds a frequency for the root of the key name
Accepted(keyName) ==
    LET rootName == IF endsWith(keyName, "m") THEN DropLast(keyName) ELSE keyName
    IN  /\ typeof(RootFrequency(rootName)) = "number"
        /\ isFinite(RootFrequency(rootName))

\* C33: after every onHandResults call the key of the page, the key of the
\* overlay and the key of the audio engine are the same, a call that commits
\* a key gives all three the hovered key, and setKey accepts every one of
\* the 24 key names of the wheel.
C33_SingleCurrentKey ==
    [][FrameStep =>
           /\ mainCurrentKey' = overlayCurrentKey'
           /\ overlayCurrentKey' = currentKey'
           /\ mainCurrentKey' \in OverlayKeys
           /\ CallsTo(lastFrame', "setKey") # <<>> =>
                  /\ mainCurrentKey' = Val(mainHoveredKey)
                  /\ mainCurrentKey' # mainCurrentKey
           /\ \A keyName \in OverlayKeys : Accepted(keyName)
      ]_vars

\* a pinch over Em in the inner ring was released: the page, the overlay
\* and the engine are in E minor
C33_Witness ==
    /\ lastFrame # Null
    /\ CallsTo(lastFrame, "setKey") # <<>>
    /\ mainCurrentKey = <<"E", "m">>
    /\ overlayCurrentKey = <<"E", "m">>
    /\ currentKey = <<"E", "m">>
    /\ isMinor

\* C34: the hand reported with a confirmed pinch has itself pinched in
\* every processed frame since the pinch's hold timer started, and it is the
\* same hand from one frame of a confirmed pinch to the next.
C34_PinchHandHeld ==
    [][FrameProcessed /\ pinchActive' =>
           /\ pinchHand' # Null
           /\ Val(pinchHand') \in run'.holders
           /\ pinchActive => pinchHand' = pinchHand
      ]_vars

\* C35: restartCamera is called only when no earlier restartCamera call is
\* still waiting for the camera to stop or to start.
C35_RestartsDoNotOverlap ==
    [][RestartSignalled => restartsInFlight = 0]_vars

\* a setter of the parameter is called in this step
SetterCalled(p) == expected'[p] # expected[p]

\* what the step leaves of the parameter in the engine
PendingAfter(p) == IF p = "intensity" THEN pendingIntensity' ELSE pendingWidth'
AppliedAfter(p) == IF p = "intensity" THEN appliedIntensity' ELSE appliedWidth'
LastValidAfter(p) == IF p = "intensity" THEN lastValidIntensity' ELSE lastValidWidth'

\* C36: a setter called while the engine is not INITIALIZED queues its
\* amount; the queued amount stays where it is through every step that is
\* no setter call and does not finish the initialization, a failing attempt
\* included; the step that makes the engine INITIALIZED applies each queued
\* amount once and empties the queue, and nothing is replayed after it.
C36_QueueSurvivesFailure ==
    [][\A p \in Parameters :
           /\ SetterCalled(p) /\ state # INITIALIZED =>
                  PendingAfter(p) = Some(LastValidAfter(p))
           /\ ~SetterCalled(p) /\ state' # INITIALIZED =>
                  PendingAfter(p) = Pending(p)
           /\ state # ERROR /\ state' = ERROR => PendingAfter(p) = Pending(p)
           /\ state # INITIALIZED /\ state' = INITIALIZED /\ Pending(p) # Null =>
                  /\ replayed'[p] = <<Limited(Val(Pending(p)))>>
                  /\ AppliedAfter(p) = Some(Limited(Val(Pending(p))))
                  /\ PendingAfter(p) = Null
           /\ state = INITIALIZED => replayed'[p] = replayed[p]
      ]_vars

\* a first attempt failed and the second one succeeded with a width of 0.7
\* in the queue, the only width ever set, which it replayed
C36_Witness ==
    /\ state = INITIALIZED
    /\ attempts = 2
    /\ promises = <<"rejected", "fulfilled">>
    /\ expected.width = [valid |-> Some(70), superseded |-> Null, last |-> Num(70)]
    /\ replayed.width = <<70>>
    /\ appliedWidth = Some(70)
    /\ pendingWidth = Null

\* the segment index getKeyAtPosition computes for a position, the wheel
\* turned as it is now
SegmentIndexAt(p) ==
    SegmentIndex(PixelsRight(p), PixelsDown(p), rotationOffset)

\* C37: in every reachable state of the overlay, under way between two keys
\* included, the rotation offset lies between -330 degrees and 0, and for
\* every hit-test the segment index is one of 0 .. 11 and getKeyAtPosition
\* returns null or one of the 24 keys: a key in the two rings, where an
\* index outside the arrays would give undefined, and null elsewhere.
C37_KeySelectorWellDefined ==
    /\ [](/\ rotationOffset \in RestOffset(11)..0
          /\ targetRotationOffset \in {RestOffset(i) : i \in 0..11})
    /\ [][HitTested =>
              LET p == Val(hitTest').position
                  key == Val(hitTest').key
              IN  /\ SegmentIndexAt(p) \in 0..11
                  /\ key \in {Null} \cup {Some(k) : k \in OverlayKeys}
                  /\ InRing(p) <=> key # Null
         ]_vars

\* the key was changed to D minor while the wheel was under way to F#, and
\* a position of the outer ring was hit-tested with the wheel where the
\* second change found it; the hit-test gave a major key
C37_Witness ==
    /\ rotationStartTime # Null
    /\ rotationOffset \notin {RestOffset(i) : i \in 0..11}
    /\ rotationStartOffset = rotationOffset
    /\ targetRotationOffset = RestOffset(getKeyIndex(<<"D", "m">>))
    /\ overlayCurrentKey = <<"D", "m">>
    /\ hitTest # Null
    /\ InRing(Val(hitTest).position)
    /\ Val(hitTest).key = getKeyAtPosition(Val(hitTest).position)
    /\ Val(hitTest).key # Null
    /\ Val(Val(hitTest).key) \in MajorKeys

\* the amount onHandResults hands to setIntensity or setWidth for a rotation
\* of a Gesture Event
AmountFor(rotation) == RotationAmount(validateRotation(Num(rotation)))

\* C38: the leftRotation and the rightRotation of every Gesture Event the
\* detector emits lie between -90 and 90 degrees, and the amounts the
\* callback of main.js computes from them for setIntensity and setWidth lie
\* between 0 and 1 (0 .. 100 hundredths).
C38_ControlValuesInRange ==
    event # Null =>
        \A rotation \in {Val(event).leftRotation, Val(event).rightRotation} :
            /\ rotation \in -90..90
            /\ IsValidRotation(AmountFor(rotation))
            /\ AmountFor(rotation)[3] \in 0..100

\* both fists were held and are published, the right one at the end of the
\* range, where the amount is 1, the left one inside of it
C38_Witness ==
    /\ event # Null
    /\ fistActive.left /\ fistActive.right
    /\ calculateHandRotation_Unclamped(FistDown) = 135
    /\ Val(event).rightRotation = 90
    /\ AmountFor(Val(event).rightRotation) = Num(100)
    /\ Val(event).leftRotation \notin {-90, 0, 90}
    /\ AmountFor(Val(event).leftRotation)[3] \in 1..99

\* C39: a landmark frame delivered while isInitialized is false emits no
\* Gesture Event and leaves the hold timers, the published and the stored
\* rotations, the pinch state and the no-detection counter as they were.
C39_FramesBeforeInitIgnored ==
    [][now' # now /\ ~isInitialized =>
           UNCHANGED <<event, fistHoldStart, fistActive, pinchHoldStart,
                       pinchActiveConfirmed, lastLeftRotation, lastRightRotation,
                       hand1Rotation, hand2Rotation, pinchActive, pinchPosition,
                       pinchHand, noDetectionCount, restartsInFlight,
                       isInitialized>>
      ]_vars

\* three frames were delivered to a detector whose init() had failed: no
\* event, no timer, no count
C39_Witness ==
    /\ detectorInit = "failed"
    /\ ~isInitialized
    /\ now >= 3 * 225
    /\ event = Null
    /\ fistHoldStart = [left |-> Null, right |-> Null]
    /\ pinchHoldStart = Null
    /\ noDetectionCount = 0

====
